---- MODULE Spec2Model ----
(***************************************************************************)
(* A model of the Raven compiler's symbol registry (Syntax), of the        *)
(* monomorphiser (CodelessFinalizedFunction::degeneric, degeneric_code)    *)
(* and of the verification tasks (FunctionData::verify).                   *)
(*                                                                         *)
(* Names, operator templates and mangled names are sequences of            *)
(* one-character strings, so that replace, split and join act on them.     *)
(***************************************************************************)
EXTENDS Integers, Sequences, FiniteSets, TLC

(***************************************************************************)
(* Bounds of the model.                                                    *)
(***************************************************************************)
\* how many top-level items the parser hands to the registry
MaxItems == 3
\* how many tasks wait on the registry
NumWaiters == 2

\* u64::MAX, the id of an item that has no id (functions); the largest
\* integer of the model checker stands for it
U64_MAX == 2147483647

(***************************************************************************)
(* Generic helpers: maps with a dynamic domain, sequences.                 *)
(***************************************************************************)
EmptyMap == [x \in {} |-> 0]

Put(m, k, v) == [x \in (DOMAIN m) \cup {k} |-> IF x = k THEN v ELSE m[x]]

Remove(m, k) == [x \in (DOMAIN m) \ {k} |-> m[x]]

Get(m, k, default) == IF k \in DOMAIN m THEN m[k] ELSE default

Range(s) == {s[i] : i \in DOMAIN s}

Count(s, e) == Cardinality({i \in DOMAIN s : s[i] = e})

\* str::replace(pat, rep): every non-overlapping occurrence, left to right
RECURSIVE Replace(_, _, _)
Replace(s, pat, rep) ==
    IF Len(s) < Len(pat) THEN s
    ELSE IF SubSeq(s, 1, Len(pat)) = pat
         THEN rep \o Replace(SubSeq(s, Len(pat) + 1, Len(s)), pat, rep)
         ELSE <<s[1]>> \o Replace(Tail(s), pat, rep)

(***************************************************************************)
(* The registry state (struct Syntax).                                     *)
(***************************************************************************)
VARIABLES
    items,             \* the Arc'd FunctionData / StructData handed to add
    pending,           \* indices of items parsed and not yet passed to add
    errors,            \* Syntax::errors
    structures,        \* Syntax::structures: [types, sorted, wakers]
    functions,         \* Syntax::functions: [types, sorted, wakers, data]
    operations,        \* Syntax::operations: template -> item
    operation_wakers,  \* Syntax::operation_wakers: template -> wakers
    finished,          \* Syntax::async_manager.finished
    waiters,           \* the tasks polling the registry
    calls,             \* the calls of degeneric, one per calling task
    spawned,           \* the degeneric_code tasks handed to the executor
    verify,            \* the verify task of every function
    compiling,         \* Syntax::compiling: name -> FinalizedFunction
    structs,           \* a call of Struct::resolve_generics
    solver,            \* a query to Syntax::solve
    parser,            \* a run of the expression parser
    sync,              \* the Syntax mutex and the tasks that take it
    parser_utils,      \* a run of the code parser: ParserUtils and its result
    tokenizer          \* a Tokenizer and a speculation on it

regVars == <<items, pending, errors, structures, functions, operations,
             operation_wakers, finished, waiters>>

\* the registry's variables that only parsing and waiting change
parseVars == <<pending, errors, structures, operations, operation_wakers,
               finished, waiters>>

monoVars == <<calls, spawned>>

verVars == <<verify, compiling>>

\* the calls of the functions that do not touch the registry
callVars == <<structs, solver, parser, sync, parser_utils, tokenizer>>

\* no such call is under way
NoCall == [pc |-> "idle"]

CallsIdle ==
    /\ structs = NoCall
    /\ solver = NoCall
    /\ parser = NoCall
    /\ sync = NoCall
    /\ parser_utils = NoCall
    /\ tokenizer = NoCall


\* the names of the model, as character sequences
S_main == <<"m", "a", "i", "n">>
S_id == <<"i", "d">>
S_sum == <<"s", "u", "m">>
S_make == <<"m", "a", "k", "e">>
S_i64 == <<"i", "6", "4">>
S_bool == <<"b", "o", "o", "l">>
S_Add == <<"A", "d", "d">>
S_Sum == <<"S", "u", "m">>

ParseError == "parse"
DupeError == "dupe"
AttributeError == "attribute"

\* the values of the `operation` attribute the parser may hand over
OpenHole == <<"{", "}">>
PlusHole == <<"{", "+", "}">>
TemplatePlain == <<"{", "}", "+", "{", "}">>
TemplateMarked == <<"{", "+", "}", "+", "{", "}">>

NoAttribute == [tag |-> "none", val |-> <<>>]

\* The items the parser may produce: a function, a function that failed to
\* parse, a struct, two operator traits whose templates differ only in the
\* marker {+}, a trait whose operation attribute is not a string, and a
\* struct that failed to parse.
Shape(kind, name, poisoned, attr) ==
    [kind |-> kind, name |-> name, poisoned |-> poisoned, attr |-> attr]

ItemShapes ==
    { Shape("func", S_main, <<>>, NoAttribute),
      Shape("func", S_main, <<ParseError>>, NoAttribute),
      Shape("struct", S_Add, <<>>, NoAttribute),
      Shape("struct", S_Add, <<>>, [tag |-> "string", val |-> TemplatePlain]),
      Shape("struct", S_Sum, <<>>, [tag |-> "string", val |-> TemplateMarked]),
      Shape("struct", S_Add, <<>>, [tag |-> "other", val |-> <<>>]),
      Shape("struct", S_Sum, <<ParseError>>, NoAttribute) }

\* what a task may wait for: a function, a struct, an operator template
WaitTargets ==
    { <<"func", S_main>>, <<"struct", S_Add>>, <<"op", TemplatePlain>> }

Waiters == 1..NumWaiters

\* T::get_manager
Manager(kind) == IF kind = "func" THEN functions ELSE structures

\* TopElement::is_operator: never for a function, for a trait when it
\* carries an `operation` attribute
is_operator(item) == item.kind = "struct" /\ item.attr.tag # "none"

\* the test that decides whether a name collision is reported
DupeCondition(adding, old) ==
    adding.poisoned = <<>> /\ adding.poisoned = <<>>

\* an operations table keyed by the attribute's text as it was written
OperationKeyAsWritten(attr) == attr.val

\* the key under which an operator trait is stored
OperationKey(attr) == Replace(attr.val, PlusHole, OpenHole)

\* Waker::wake / wake_by_ref on the wakers of the tasks ts
WakeAll(w, ts) ==
    [t \in Waiters |->
        IF t \in ts /\ w[t].state = "waiting"
        THEN [w[t] EXCEPT !.state = "woken"]
        ELSE w[t]]

EmptyManager == [types |-> EmptyMap, sorted |-> <<>>, wakers |-> EmptyMap,
                 data |-> EmptyMap]

IdleWaiter == [state |-> "idle", kind |-> "none", key |-> <<>>]

\* Syntax::new, as far as parsing and waiting go
ParseInit ==
    /\ pending = {}
    /\ errors = <<>>
    /\ structures = EmptyManager
    /\ operations = EmptyMap
    /\ operation_wakers = EmptyMap
    /\ finished = FALSE
    /\ waiters = [t \in Waiters |-> IdleWaiter]

\* Syntax::new
RegInit ==
    /\ ParseInit
    /\ items = <<>>
    /\ functions = EmptyManager
    /\ calls = EmptyMap
    /\ spawned = <<>>
    /\ verify = EmptyMap
    /\ compiling = EmptyMap
    /\ CallsIdle

\* the id the parser gives the next struct: ids count from 1 in source order
NextStructId == Cardinality({i \in DOMAIN items : items[i].kind = "struct"}) + 1

\* The parser produces a top-level item and hands it to a task that will
\* call add (or add_poison) with it.
ParseItem ==
    /\ ~finished
    /\ Len(items) < MaxItems
    /\ \E shape \in ItemShapes :
          /\ items' = Append(items,
                 [kind |-> shape.kind, name |-> shape.name,
                  poisoned |-> shape.poisoned,
                  id |-> IF shape.kind = "func" THEN U64_MAX ELSE NextStructId,
                  attr |-> shape.attr])
          /\ pending' = pending \cup {Len(items) + 1}
    /\ UNCHANGED <<errors, structures, functions, operations,
                   operation_wakers, finished, waiters>>
    /\ UNCHANGED <<monoVars, verVars, callVars>>

\* What Syntax::add does to the registry once its lock is taken.
AddEffect(i) ==
    LET adding == items[i]
        mgr == Manager(adding.kind)
        errs1 == errors \o adding.poisoned
        collides == adding.name \in DOMAIN mgr.types
        old == mgr.types[adding.name]
        dupe == collides /\ DupeCondition(adding, items[old])
        errs2 == IF dupe THEN Append(errs1, DupeError) ELSE errs1
        items2 == IF dupe
                  THEN [items EXCEPT ![old].poisoned = Append(@, DupeError)]
                  ELSE items
        mgr2 == IF collides THEN mgr
                ELSE [mgr EXCEPT !.sorted = Append(@, i),
                                 !.types = Put(@, adding.name, i)]
        isop == is_operator(adding)
        wellformed == adding.attr.tag = "string"
        key == OperationKey(adding.attr)
        errs3 == IF ~isop THEN errs2
                 ELSE IF ~wellformed THEN Append(errs2, AttributeError)
                 ELSE IF key \in DOMAIN operations
                      THEN Append(errs2, DupeError)
                      ELSE errs2
        opwoken == IF isop /\ wellformed
                   THEN Range(Get(operation_wakers, key, <<>>))
                   ELSE {}
        ops2 == IF isop /\ wellformed THEN Put(operations, key, i)
                ELSE operations
        early == isop /\ ~wellformed
        namewoken == IF early THEN {}
                     ELSE Range(Get(mgr2.wakers, adding.name, <<>>))
        mgr3 == IF early THEN mgr2
                ELSE [mgr2 EXCEPT !.wakers = Remove(@, adding.name)]
    IN  [errors |-> errs3, items |-> items2, manager |-> mgr3,
         operations |-> ops2, woken |-> opwoken \cup namewoken]

\* Syntax::add
Add(i) ==
    /\ i \in pending
    /\ items[i].id # U64_MAX => Len(structures.sorted) = items[i].id - 1
    /\ LET r == AddEffect(i) IN
        /\ errors' = r.errors
        /\ items' = r.items
        /\ functions' = IF items[i].kind = "func" THEN r.manager ELSE functions
        /\ structures' = IF items[i].kind = "func" THEN structures ELSE r.manager
        /\ operations' = r.operations
        /\ waiters' = WakeAll(waiters, r.woken)
    /\ pending' = pending \ {i}
    /\ UNCHANGED <<operation_wakers, finished>>
    /\ UNCHANGED <<monoVars, verVars, callVars>>

\* Syntax::add_poison, called with an item that failed to parse
AddPoison(i) ==
    /\ i \in pending
    /\ items[i].poisoned # <<>>
    /\ LET element == items[i]
           getter == Manager(element.kind)
           getter2 == IF element.name \in DOMAIN getter.types THEN getter
                      ELSE [getter EXCEPT !.sorted = Append(@, i),
                                          !.types = Put(@, element.name, i)]
           woken == Range(Get(getter2.wakers, element.name, <<>>))
           getter3 == [getter2 EXCEPT !.wakers = Remove(@, element.name)]
       IN
        /\ errors' = errors \o element.poisoned
        /\ functions' = IF element.kind = "func" THEN getter3 ELSE functions
        /\ structures' = IF element.kind = "func" THEN structures ELSE getter3
        /\ waiters' = WakeAll(waiters, woken)
    /\ pending' = pending \ {i}
    /\ UNCHANGED <<items, operations, operation_wakers, finished>>
    /\ UNCHANGED <<monoVars, verVars, callVars>>

\* Syntax::finish
Finish ==
    /\ ~finished
    /\ finished' = TRUE
    /\ waiters' = WakeAll(waiters,
            UNION {Range(structures.wakers[n]) : n \in DOMAIN structures.wakers}
            \cup UNION {Range(functions.wakers[n]) : n \in DOMAIN functions.wakers})
    /\ structures' = [structures EXCEPT !.wakers = EmptyMap]
    /\ functions' = [functions EXCEPT !.wakers = EmptyMap]
    /\ UNCHANGED <<items, pending, errors, operations, operation_wakers>>
    /\ UNCHANGED <<monoVars, verVars, callVars>>

\* whether the registry holds the key a task asks for
Present(kind, key) ==
    IF kind = "op" THEN key \in DOMAIN operations
    ELSE key \in DOMAIN Manager(kind).types

\* One poll of a registry getter: the handle when the key is present, a
\* "not found" error once parsing has finished, and otherwise the task's
\* waker is pushed on the key's waker list and the task suspends.
Poll(t, kind, key) ==
    IF Present(kind, key)
    THEN /\ waiters' = [waiters EXCEPT ![t] =
                [state |-> "got", kind |-> kind, key |-> key]]
         /\ UNCHANGED <<structures, functions, operation_wakers>>
    ELSE IF finished
    THEN /\ waiters' = [waiters EXCEPT ![t] =
                [state |-> "notfound", kind |-> kind, key |-> key]]
         /\ UNCHANGED <<structures, functions, operation_wakers>>
    ELSE /\ waiters' = [waiters EXCEPT ![t] =
                [state |-> "waiting", kind |-> kind, key |-> key]]
         /\ operation_wakers' =
                IF kind = "op"
                THEN Put(operation_wakers, key,
                         Append(Get(operation_wakers, key, <<>>), t))
                ELSE operation_wakers
         /\ functions' =
                IF kind = "func"
                THEN [functions EXCEPT !.wakers =
                         Put(@, key, Append(Get(@, key, <<>>), t))]
                ELSE functions
         /\ structures' =
                IF kind = "struct"
                THEN [structures EXCEPT !.wakers =
                         Put(@, key, Append(Get(@, key, <<>>), t))]
                ELSE structures

\* a task starts to wait for a function, a struct or an operator
Wait(t) ==
    /\ waiters[t].state = "idle"
    /\ \E target \in WaitTargets : Poll(t, target[1], target[2])
    /\ UNCHANGED <<items, pending, errors, operations, finished>>
    /\ UNCHANGED <<monoVars, verVars, callVars>>

\* a woken task polls again
Repoll(t) ==
    /\ waiters[t].state = "woken"
    /\ Poll(t, waiters[t].kind, waiters[t].key)
    /\ UNCHANGED <<items, pending, errors, operations, finished>>
    /\ UNCHANGED <<monoVars, verVars, callVars>>


(***************************************************************************)
(* Types, the trait solver and name mangling.                              *)
(***************************************************************************)
\* FinalizedTypes::Struct and FinalizedTypes::Generic
Struct(name) == [tag |-> "Struct", name |-> name, bounds |-> <<>>]

Generic(name, bounds) == [tag |-> "Generic", name |-> name, bounds |-> bounds]

NoType == [tag |-> "None", name |-> <<>>, bounds |-> <<>>]

\* Syntax::implementations: i64 implements the trait Add
Implementations == { <<S_i64, S_Add>> }

\* the goal the constraint solver is given when no cap is hit: the first
\* type implements the trait
Implemented(first, second) == <<first.name, second.name>> \in Implementations

RECURSIVE solve(_, _)
RECURSIVE SolveBounds(_, _, _)

\* a loop over the bounds that is content with one bound that holds
SolveAnyBound(first, bounds, i) ==
    \E j \in DOMAIN bounds : j >= i /\ solve(first, bounds[j])

\* the loop of Syntax::solve over the bounds of a generic: false at the first
\* bound that does not hold, true when the bounds are used up
SolveBounds(first, bounds, i) ==
    IF i > Len(bounds) THEN TRUE
    ELSE IF ~solve(first, bounds[i]) THEN FALSE
    ELSE SolveBounds(first, bounds, i + 1)

\* Syntax::solve: a generic second operand holds when every bound holds,
\* anything else is a goal for the constraint solver
solve(first, second) ==
    IF second.tag = "Generic"
    THEN SolveBounds(first, second.bounds, 1)
    ELSE Implemented(first, second)

\* impl Display for a type: a struct prints its name
TypeName(type) == type.name

\* str::split("$").next(): the text before the first `$`
RECURSIVE BeforeDollar(_)
BeforeDollar(s) ==
    IF s = <<>> THEN <<>>
    ELSE IF s[1] = "$" THEN <<>>
    ELSE <<s[1]>> \o BeforeDollar(Tail(s))

\* the loop of display_parenless: every element followed by the deliminator
RECURSIVE JoinEach(_, _)
JoinEach(input, deliminator) ==
    IF input = <<>> THEN <<>>
    ELSE input[1] \o deliminator \o JoinEach(Tail(input), deliminator)

\* display_parenless: the elements joined, the last deliminator cut off
display_parenless(input, deliminator) ==
    IF input = <<>> THEN <<>>
    ELSE LET output == JoinEach(input, deliminator)
         IN  SubSeq(output, 1, Len(output) - Len(deliminator))

\* ProcessManager::generics as an insertion-ordered map: a sequence of
\* [name, type] entries
GenericsInsert(generics, name, type) ==
    IF \E i \in DOMAIN generics : generics[i].name = name
    THEN [i \in DOMAIN generics |->
            IF generics[i].name = name
            THEN [name |-> name, type |-> type] ELSE generics[i]]
    ELSE Append(generics, [name |-> name, type |-> type])

GenericsValues(generics) ==
    [i \in DOMAIN generics |-> TypeName(generics[i].type)]

\* FinalizedTypes::resolve_generic: a generic formal type binds its name to
\* the actual type after every bound was checked by the solver
resolve_generic(formal, actual) ==
    IF formal.tag # "Generic"
    THEN [ok |-> TRUE, some |-> FALSE, name |-> <<>>, other |-> NoType]
    ELSE IF \A i \in DOMAIN formal.bounds : solve(actual, formal.bounds[i])
    THEN [ok |-> TRUE, some |-> TRUE, name |-> formal.name, other |-> actual]
    ELSE [ok |-> FALSE, some |-> FALSE, name |-> <<>>, other |-> NoType]

\* FinalizedTypes::degeneric: a generic type is replaced by its binding
type_degeneric(type, generics) ==
    IF type.tag # "Generic" THEN [ok |-> TRUE, type |-> type]
    ELSE IF \E i \in DOMAIN generics : generics[i].name = type.name
    THEN [ok |-> TRUE,
          type |-> generics[CHOOSE i \in DOMAIN generics :
                                generics[i].name = type.name].type]
    ELSE [ok |-> FALSE, type |-> type]

\* the mangled name of a specialisation
MangledName(method_name, generics) ==
    BeforeDollar(method_name) \o <<"$">>
        \o display_parenless(GenericsValues(generics), <<"_">>)

(***************************************************************************)
(* The monomorphiser: CodelessFinalizedFunction::degeneric.                *)
(***************************************************************************)
\* how many tasks call degeneric
NumCallers == 2

Callers == 1..NumCallers

T_generic == Generic(<<"T">>, <<>>)
T_bounded == Generic(<<"T">>, <<Struct(S_Add)>>)

\* the signatures of the program's functions: fn id<T>(x: T): T,
\* fn sum<T: Add>(a: T, b: T): T, fn make<T>() and, for any other name,
\* fn name()
Method(name) ==
    IF name = S_id
    THEN [generics |-> <<[name |-> <<"T">>, bounds |-> <<>>]>>,
          arguments |-> <<T_generic>>,
          return_type |-> T_generic,
          name |-> S_id]
    ELSE IF name = S_sum
    THEN [generics |-> <<[name |-> <<"T">>, bounds |-> <<Struct(S_Add)>>]>>,
          arguments |-> <<T_bounded, T_bounded>>,
          return_type |-> T_bounded,
          name |-> S_sum]
    ELSE IF name = S_make
    THEN [generics |-> <<[name |-> <<"T">>, bounds |-> <<>>]>>,
          arguments |-> <<>>,
          return_type |-> NoType,
          name |-> S_make]
    ELSE [generics |-> <<>>, arguments |-> <<>>, return_type |-> NoType,
          name |-> name]

\* the call sites: the function, the types of the argument effects and the
\* return type the call site expects, if it names one
CallShapes ==
    { [method |-> S_id, arguments |-> <<Struct(S_i64)>>, returning |-> NoType],
      [method |-> S_id, arguments |-> <<Struct(S_bool)>>, returning |-> NoType],
      [method |-> S_id, arguments |-> <<Struct(S_i64)>>,
       returning |-> Struct(S_i64)],
      [method |-> S_sum, arguments |-> <<Struct(S_i64), Struct(S_i64)>>,
       returning |-> NoType],
      [method |-> S_sum, arguments |-> <<Struct(S_bool), Struct(S_bool)>>,
       returning |-> NoType] }

\* the generics the caller's process manager holds before the call: none, or
\* those of the specialised function whose body makes the call
ManagerGenerics ==
    { <<>>, <<[name |-> <<"U">>, type |-> Struct(S_bool)]>> }

\* an Arc<CodelessFinalizedFunction>: the signature and `arc`, the
\* Arc<FunctionData> it points to (an index of items)
Codeless(signature, arc) ==
    [generics |-> signature.generics, arguments |-> signature.arguments,
     return_type |-> signature.return_type, name |-> signature.name,
     arc |-> arc]

NoMethod ==
    [generics |-> <<>>, arguments |-> <<>>, return_type |-> NoType,
     name |-> <<>>, arc |-> 0]

\* the Result a call returns: Ok(handle) or Err
NoResult == [ok |-> FALSE, handle |-> NoMethod]

IdleCall ==
    [pc |-> "idle", method |-> <<>>, arguments |-> <<>>, returning |-> NoType,
     manager |-> <<>>, generics |-> <<>>, name |-> <<>>,
     new_method |-> NoMethod, result |-> NoResult, registered |-> FALSE,
     after |-> {}]

\* the first part of degeneric: the return type, when the call site expects
\* one, binds the generic it resolves
ResolveReturn(method, returning, generics) ==
    IF method.return_type.tag = "None" \/ returning.tag = "None"
    THEN [ok |-> TRUE, generics |-> generics]
    ELSE LET r == resolve_generic(method.return_type, returning)
         IN  IF ~r.ok THEN [ok |-> FALSE, generics |-> generics]
             ELSE IF r.some
             THEN [ok |-> TRUE,
                   generics |-> GenericsInsert(generics, r.name, r.other)]
             ELSE [ok |-> TRUE, generics |-> generics]

\* the loop over the arguments: each generic formal binds its name to the
\* type of the argument's effect, or the call fails on a bound
RECURSIVE ResolveArguments(_, _, _, _)
ResolveArguments(formals, actuals, i, generics) ==
    IF i > Len(formals) THEN [ok |-> TRUE, generics |-> generics]
    ELSE LET r == resolve_generic(formals[i], actuals[i])
         IN  IF ~r.ok THEN [ok |-> FALSE, generics |-> generics]
             ELSE ResolveArguments(formals, actuals, i + 1,
                      IF r.some THEN GenericsInsert(generics, r.name, r.other)
                      ELSE generics)

\* the copy of the method with every type solidified
RECURSIVE DegenericTypes(_, _)
DegenericTypes(types, generics) ==
    IF types = <<>> THEN [ok |-> TRUE, types |-> <<>>]
    ELSE LET head == type_degeneric(types[1], generics)
             rest == DegenericTypes(Tail(types), generics)
         IN  [ok |-> head.ok /\ rest.ok, types |-> <<head.type>> \o rest.types]

\* a lookup in the list of parsed functions, which degeneric never extends
InSortedFunctions(name) ==
    \E i \in DOMAIN functions.sorted : items[functions.sorted[i]].name = name

\* whether the function registry already has the specialisation's name
AlreadyDegenericed(name) == name \in DOMAIN functions.types

\* A task calls degeneric: the generics are resolved against the return type
\* and the arguments and the name of the specialisation is computed.
DegenericResolve(c) ==
    /\ calls[c].pc = "idle"
    /\ \E shape \in CallShapes, manager \in ManagerGenerics :
         LET method == Method(shape.method)
             ret == ResolveReturn(method, shape.returning, manager)
             args == IF ret.ok
                     THEN ResolveArguments(method.arguments, shape.arguments,
                                           1, ret.generics)
                     ELSE ret
             started == [IdleCall EXCEPT
                            !.method = shape.method,
                            !.arguments = shape.arguments,
                            !.returning = shape.returning,
                            !.manager = manager,
                            !.after = {d \in Callers : calls[d].pc = "done"}]
         IN  calls' = [calls EXCEPT ![c] =
                 IF ~args.ok
                 THEN [started EXCEPT !.pc = "done"]
                 ELSE [started EXCEPT
                          !.pc = "named",
                          !.generics = args.generics,
                          !.name = MangledName(method.name, args.generics)]]
    /\ UNCHANGED <<items, functions, spawned>>
    /\ UNCHANGED <<parseVars, verVars, callVars>>

\* The registry is asked for the name: a specialisation found there is
\* returned, otherwise the method is copied and its types are solidified.
DegenericLookup(c) ==
    /\ calls[c].pc = "named"
    /\ IF AlreadyDegenericed(calls[c].name)
       THEN LET data == functions.types[calls[c].name]
            IN  /\ items[data].name \in DOMAIN functions.data
                /\ calls' = [calls EXCEPT
                       ![c].pc = "done",
                       ![c].result =
                           [ok |-> TRUE,
                            handle |-> functions.data[items[data].name]]]
       ELSE LET method == Method(calls[c].method)
                arguments == DegenericTypes(method.arguments, calls[c].generics)
                return_type == type_degeneric(method.return_type,
                                              calls[c].generics)
            IN  calls' = [calls EXCEPT ![c] =
                    IF arguments.ok /\ return_type.ok
                    THEN [@ EXCEPT
                            !.pc = "created",
                            !.new_method =
                                [generics |-> <<>>,
                                 arguments |-> arguments.types,
                                 return_type |-> return_type.type,
                                 name |-> calls[c].name,
                                 arc |-> 0]]
                    ELSE [@ EXCEPT !.pc = "done"]]
    /\ UNCHANGED <<items, functions, spawned>>
    /\ UNCHANGED <<parseVars, verVars, callVars>>

\* a registration that renames the original's FunctionData through its Arc
\* instead of cloning it
RenameEffect(original, new_method) ==
    LET arc == functions.types[original]
        handle == [new_method EXCEPT !.arc = arc]
    IN  [items |-> [items EXCEPT ![arc].name = new_method.name],
         functions |-> [functions EXCEPT
             !.types = Put(@, new_method.name, arc),
             !.data = Put(@, new_method.name, handle)],
         spawned |-> Append(spawned,
             [original |-> original, degenericed |-> handle,
              pc |-> "spin", status |-> "ready"]),
         handle |-> handle]

\* what registering a specialisation does to the function registry: the new
\* FunctionData is a copy of the original's with the mangled name
RegisterEffect(original, new_method) ==
    LET arc == Len(items) + 1
        method_data == [items[functions.types[original]] EXCEPT
                           !.name = new_method.name]
        handle == [new_method EXCEPT !.arc = arc]
    IN  [items |-> Append(items, method_data),
         functions |-> [functions EXCEPT
             !.types = Put(@, new_method.name, arc),
             !.data = Put(@, new_method.name, handle)],
         spawned |-> Append(spawned,
             [original |-> original, degenericed |-> handle,
              pc |-> "spin", status |-> "ready"]),
         handle |-> handle]

\* The new specialisation is put into the registry under the lock and the
\* task that specialises its body is spawned.
DegenericRegister(c) ==
    /\ calls[c].pc = "created"
    /\ LET r == RegisterEffect(calls[c].method, calls[c].new_method)
       IN  /\ items' = r.items
           /\ functions' = r.functions
           /\ spawned' = r.spawned
           /\ calls' = [calls EXCEPT
                  ![c].pc = "done",
                  ![c].result = [ok |-> TRUE, handle |-> r.handle],
                  ![c].registered = TRUE]
    /\ UNCHANGED <<parseVars, verVars, callVars>>

\* the registry once the generic functions id and sum were added and their
\* signatures were published
MethodItem(name) ==
    [kind |-> "func", name |-> name, poisoned |-> <<>>, id |-> U64_MAX,
     attr |-> NoAttribute]

MonoInit ==
    /\ items = <<MethodItem(S_id), MethodItem(S_sum)>>
    /\ functions =
          [types |-> Put(Put(EmptyMap, S_id, 1), S_sum, 2),
           sorted |-> <<1, 2>>,
           wakers |-> EmptyMap,
           data |-> Put(Put(EmptyMap, S_id, Codeless(Method(S_id), 1)),
                        S_sum, Codeless(Method(S_sum), 2))]
    /\ calls = [c \in Callers |-> IdleCall]
    /\ spawned = <<>>
    /\ ParseInit
    /\ verify = EmptyMap
    /\ compiling = EmptyMap
    /\ CallsIdle

MonoNext ==
    \/ \E c \in Callers : DegenericResolve(c)
    \/ \E c \in Callers : DegenericLookup(c)
    \/ \E c \in Callers : DegenericRegister(c)

(***************************************************************************)
(* Verification: FunctionData::verify, degeneric_code and the executor.    *)
(***************************************************************************)
\* how many worker threads the executor runs tasks on
NumWorkers == 2

\* how many degeneric_code tasks the program below can spawn
MaxSpawned == 3

\* The program: main calls id with an i64, id with a bool, itself and make;
\* the generic id calls main, so that main and id are mutually recursive;
\* the generic make takes no argument and returns nothing.
VerifyFuncs == {S_main, S_id, S_make}

Body(name) ==
    IF name = S_main
    THEN << [method |-> S_id, arguments |-> <<Struct(S_i64)>>],
            [method |-> S_id, arguments |-> <<Struct(S_bool)>>],
            [method |-> S_main, arguments |-> <<>>],
            [method |-> S_make, arguments |-> <<>>] >>
    ELSE IF name = S_id
    THEN << [method |-> S_main, arguments |-> <<>>] >>
    ELSE <<>>

\* the workers that run a task
Busy ==
    Cardinality({f \in VerifyFuncs : verify[f].status = "running"})
    + Cardinality({d \in DOMAIN spawned : spawned[d].status = "running"})

\* the executor gives a ready verify task a free worker
Schedule(f) ==
    /\ verify[f].status = "ready"
    /\ Busy < NumWorkers
    /\ verify' = [verify EXCEPT ![f].status = "running"]
    /\ UNCHANGED <<items, functions, spawned, compiling>>
    /\ UNCHANGED <<parseVars, calls, callVars>>

\* the executor gives a ready degeneric_code task a free worker
ScheduleCode(d) ==
    /\ d \in DOMAIN spawned
    /\ spawned[d].status = "ready"
    /\ Busy < NumWorkers
    /\ spawned' = [spawned EXCEPT ![d].status = "running"]
    /\ UNCHANGED <<items, functions, verify, compiling>>
    /\ UNCHANGED <<parseVars, calls, callVars>>

\* the error of a signature that does not verify
SignatureError == "signature"

\* ProcessManager::verify_func: the signature is finalised and the codeless
\* function is installed in the registry; the tasks that wait for it wake.
\* It returns a function and its code, not a Result: an error it finds is
\* recorded on the registry and on the item.
verify_func(f, failed) ==
    [functions |-> [functions EXCEPT
         !.data = Put(@, f, Codeless(Method(f), functions.types[f]))],
     verify |-> [g \in VerifyFuncs |->
         IF verify[g].status = "suspended" /\ verify[g].awaits = f
         THEN [verify[g] EXCEPT !.status = "ready", !.awaits = <<>>]
         ELSE verify[g]],
     errors |-> IF failed THEN Append(errors, SignatureError) ELSE errors,
     items |-> IF failed
               THEN [items EXCEPT ![functions.types[f]].poisoned =
                        Append(@, SignatureError)]
               ELSE items]

\* a verify that starts on the body without the signature's verification
VerifyCodeFirst(f) ==
    /\ verify[f].status = "running"
    /\ verify[f].pc = "start"
    /\ verify' = [verify EXCEPT ![f].pc = "code"]
    /\ UNCHANGED <<items, functions, spawned, compiling>>
    /\ UNCHANGED <<parseVars, calls, callVars>>

\* FunctionData::verify, its first await: verify_func
VerifyFunc(f) ==
    /\ verify[f].status = "running"
    /\ verify[f].pc = "start"
    /\ \E failed \in BOOLEAN :
         LET r == verify_func(f, failed)
         IN  /\ functions' = r.functions
             /\ errors' = r.errors
             /\ items' = r.items
             /\ verify' = [r.verify EXCEPT ![f].pc = "code",
                                           ![f].failed = failed]
    /\ UNCHANGED <<spawned, compiling, calls>>
    /\ UNCHANGED <<pending, structures, operations, operation_wakers,
                   finished, waiters, callVars>>

\* degeneric as one step of the caller: the name is computed and the
\* specialisation is registered unless the registry has it
DegenericEffect(call) ==
    LET method == Method(call.method)
        resolved == ResolveArguments(method.arguments, call.arguments, 1, <<>>)
        name == MangledName(method.name, resolved.generics)
        arguments == DegenericTypes(method.arguments, resolved.generics)
        return_type == type_degeneric(method.return_type, resolved.generics)
        new_method == [generics |-> <<>>, arguments |-> arguments.types,
                       return_type |-> return_type.type, name |-> name,
                       arc |-> 0]
    IN  IF ~resolved.ok \/ AlreadyDegenericed(name)
           \/ ~arguments.ok \/ ~return_type.ok
        THEN [items |-> items, functions |-> functions, spawned |-> spawned]
        ELSE RegisterEffect(call.method, new_method)

\* ProcessManager::verify_code at a method call of the body: the task
\* suspends until the callee's codeless function is published; a generic
\* callee is specialised
VerifyCall(f) ==
    /\ verify[f].status = "running"
    /\ verify[f].pc = "code"
    /\ verify[f].call <= Len(Body(f))
    /\ LET call == Body(f)[verify[f].call]
       IN  IF call.method \notin DOMAIN functions.data
           THEN /\ verify' = [verify EXCEPT ![f].status = "suspended",
                                            ![f].awaits = call.method]
                /\ UNCHANGED <<items, functions, spawned>>
           ELSE /\ verify' = [verify EXCEPT ![f].call = @ + 1]
                /\ IF Method(call.method).generics # <<>>
                   THEN LET r == DegenericEffect(call)
                        IN  /\ items' = r.items
                            /\ functions' = r.functions
                            /\ spawned' = r.spawned
                   ELSE UNCHANGED <<items, functions, spawned>>
    /\ UNCHANGED compiling
    /\ UNCHANGED <<parseVars, calls, callVars>>

\* FunctionData::verify, its last statement: the finalized function is
\* inserted into the compiling table
VerifyInsert(f) ==
    /\ verify[f].status = "running"
    /\ verify[f].pc = "code"
    /\ verify[f].call > Len(Body(f))
    /\ compiling' = Put(compiling, f, functions.data[f])
    /\ verify' = [verify EXCEPT ![f].pc = "done", ![f].status = "done"]
    /\ UNCHANGED <<items, functions, spawned>>
    /\ UNCHANGED <<parseVars, calls, callVars>>

\* degeneric_code, its loop: the task keeps its worker until the original
\* function is in the compiling table
DegenericCodeWait(d) ==
    /\ d \in DOMAIN spawned
    /\ spawned[d].status = "running"
    /\ spawned[d].pc = "spin"
    /\ spawned[d].original \in DOMAIN compiling
    /\ spawned' = [spawned EXCEPT ![d].pc = "body"]
    /\ UNCHANGED <<items, functions, verify, compiling>>
    /\ UNCHANGED <<parseVars, calls, callVars>>

\* degeneric_code, after the loop: the body is specialised and the finalized
\* function is inserted into the compiling table, or the task panics
DegenericCodeBody(d, ok) ==
    /\ d \in DOMAIN spawned
    /\ spawned[d].status = "running"
    /\ spawned[d].pc = "body"
    /\ IF ok
       THEN /\ compiling' = Put(compiling, spawned[d].degenericed.name,
                                spawned[d].degenericed)
            /\ spawned' = [spawned EXCEPT ![d].pc = "done",
                                          ![d].status = "done"]
       ELSE /\ spawned' = [spawned EXCEPT ![d].pc = "panicked",
                                          ![d].status = "done"]
            /\ UNCHANGED compiling
    /\ UNCHANGED <<items, functions, verify>>
    /\ UNCHANGED <<parseVars, calls, callVars>>

\* FinalizedCodeBody::degeneric returns Ok or Err
DegenericCodeFinish(d) == \E ok \in BOOLEAN : DegenericCodeBody(d, ok)

VerifyInit ==
    /\ items = <<MethodItem(S_main), MethodItem(S_id), MethodItem(S_make)>>
    /\ functions =
          [types |-> Put(Put(Put(EmptyMap, S_main, 1), S_id, 2), S_make, 3),
           sorted |-> <<1, 2, 3>>,
           wakers |-> EmptyMap,
           data |-> EmptyMap]
    /\ verify = [f \in VerifyFuncs |->
          [pc |-> "start", call |-> 1, status |-> "ready", awaits |-> <<>>,
           failed |-> FALSE]]
    /\ compiling = EmptyMap
    /\ spawned = <<>>
    /\ ParseInit
    /\ calls = EmptyMap
    /\ CallsIdle

VerifyNext ==
    \/ \E f \in VerifyFuncs : Schedule(f)
    \/ \E d \in 1..MaxSpawned : ScheduleCode(d)
    \/ \E f \in VerifyFuncs : VerifyFunc(f)
    \/ \E f \in VerifyFuncs : VerifyCall(f)
    \/ \E f \in VerifyFuncs : VerifyInsert(f)
    \/ \E d \in 1..MaxSpawned : DegenericCodeWait(d)
    \/ \E d \in 1..MaxSpawned : DegenericCodeFinish(d)

Init == RegInit

Next ==
    \/ ParseItem
    \/ \E i \in DOMAIN items : Add(i)
    \/ \E i \in DOMAIN items : AddPoison(i)
    \/ Finish
    \/ \E t \in Waiters : Wait(t)
    \/ \E t \in Waiters : Repoll(t)

vars == <<regVars, monoVars, verVars, callVars>>

Spec == Init /\ [][Next]_vars

\* calls of degeneric that run concurrently on a registry holding the
\* generic functions
MonoSpec == MonoInit /\ [][MonoNext]_vars

\* the verify tasks and the degeneric_code tasks on the executor's workers
VerifySpec == VerifyInit /\ [][VerifyNext]_vars

\* The executor runs every task that is ready once a worker is free, and a
\* task that holds a worker and can take its next step takes it.
FairVerifySpec ==
    /\ VerifyInit
    /\ [][VerifyNext]_vars
    /\ \A f \in VerifyFuncs :
          /\ WF_vars(Schedule(f))
          /\ WF_vars(VerifyFunc(f))
          /\ WF_vars(VerifyCall(f))
          /\ WF_vars(VerifyInsert(f))
    /\ \A d \in 1..MaxSpawned :
          /\ WF_vars(ScheduleCode(d))
          /\ WF_vars(DegenericCodeWait(d))
          /\ WF_vars(DegenericCodeFinish(d))

(***************************************************************************)
(* The registry's fairness: a task that calls add or finish, or a woken    *)
(* task that polls again, is not starved by the executor.  The parser's    *)
(* input and a task's decision to wait are not forced.                     *)
(***************************************************************************)
FairSpec ==
    /\ Init
    /\ [][Next]_vars
    /\ WF_vars(Finish)
    /\ \A i \in 1..MaxItems : WF_vars(Add(i))
    /\ \A t \in Waiters : WF_vars(Repoll(t))

(***************************************************************************)
(* Struct::resolve_generics and get_mangled_name.                          *)
(***************************************************************************)
\* how many type arguments a use of a struct may give
MaxTypeArgs == 2

S_str == <<"s", "t", "r">>
S_List == <<"L", "i", "s", "t">>
S_Pair == <<"P", "a", "i", "r">>
S_Boxed == <<"B", "o", "x", "e", "d">>
S_Point == <<"P", "o", "i", "n", "t">>

\* struct Struct: its generics are (name, bounds) pairs and its fields are
\* (name, type) pairs
StructShape(name, generics, fields) ==
    [name |-> name, generics |-> generics, resolved_generics |-> <<>>,
     fields |-> fields]

\* struct List<T> { value: T }, struct Pair<K, V> { key: K, value: V },
\* struct Boxed<T: Add> { inner: T } and struct Point { x: i64 }
StructShapes ==
    { StructShape(S_List, <<[name |-> <<"T">>, bounds |-> <<>>]>>,
                  <<[name |-> "value", type |-> <<"T">>]>>),
      StructShape(S_Pair, <<[name |-> <<"K">>, bounds |-> <<>>],
                            [name |-> <<"V">>, bounds |-> <<>>]>>,
                  <<[name |-> "key", type |-> <<"K">>],
                    [name |-> "value", type |-> <<"V">>]>>),
      StructShape(S_Boxed, <<[name |-> <<"T">>, bounds |-> <<S_Add>>]>>,
                  <<[name |-> "inner", type |-> <<"T">>]>>),
      StructShape(S_Point, <<>>, <<[name |-> "x", type |-> S_i64]>>) }

\* the type arguments a use of a struct gives
TypeArguments ==
    UNION {[1..n -> {S_i64, S_bool, S_str}] : n \in 0..MaxTypeArgs}

\* ResolvableTypes::is_type: a type is of its own type and of the traits it
\* implements
is_type(testing, bound) ==
    testing = bound \/ <<testing, bound>> \in Implementations

\* Struct::get_mangled_name
get_mangled_name(self, generics) ==
    self.name \o <<"_">> \o display_parenless(generics, <<"_">>)

\* MemberField::set_generics: a field of a generic type takes the type
\* argument of that generic
set_generics(fields, self, generics) ==
    [f \in DOMAIN fields |->
        IF \E i \in DOMAIN self.generics : self.generics[i].name = fields[f].type
        THEN [fields[f] EXCEPT !.type =
                 generics[CHOOSE i \in DOMAIN self.generics :
                              self.generics[i].name = fields[f].type]]
        ELSE fields[f]]

\* Struct::resolve_generics: a panic when the number of arguments differs
\* from the number of generics or when an argument misses a bound, otherwise
\* the copy of the struct with its mangled name
resolve_generics(self, generics) ==
    IF Len(generics) # Len(self.generics)
    THEN [ok |-> FALSE, returning |-> self]
    ELSE IF \E i \in DOMAIN generics :
               \E b \in DOMAIN self.generics[i].bounds :
                   ~is_type(generics[i], self.generics[i].bounds[b])
    THEN [ok |-> FALSE, returning |-> self]
    ELSE [ok |-> TRUE,
          returning |->
              [name |-> get_mangled_name(self, generics),
               generics |-> <<>>,
               resolved_generics |->
                   [i \in DOMAIN self.generics |->
                       [name |-> self.generics[i].name, type |-> generics[i]]],
               fields |-> set_generics(self.fields, self, generics)]]

\* a use of a struct with type arguments reaches the type resolver
ResolveCall ==
    /\ structs.pc = "idle"
    /\ \E self \in StructShapes, generics \in TypeArguments :
          structs' = [pc |-> "called", self |-> self, generics |-> generics,
                      returning |-> self]
    /\ UNCHANGED <<regVars, monoVars, verVars, solver, parser,
                   sync, parser_utils, tokenizer>>

\* Struct::resolve_generics returns or panics
ResolveGenerics ==
    /\ structs.pc = "called"
    /\ LET r == resolve_generics(structs.self, structs.generics)
       IN  structs' = [structs EXCEPT
               !.pc = IF r.ok THEN "resolved" ELSE "panicked",
               !.returning = r.returning]
    /\ UNCHANGED <<regVars, monoVars, verVars, solver, parser,
                   sync, parser_utils, tokenizer>>

StructInit ==
    /\ RegInit

StructNext ==
    \/ ResolveCall
    \/ ResolveGenerics

StructSpec == StructInit /\ [][StructNext]_vars

(***************************************************************************)
(* Syntax::solve, step by step, and the constraint solver's caps.          *)
(***************************************************************************)
\* how many bounds a generic of a query has
MaxBounds == 2

\* RecursiveSolver::new(30, 3000, None)
OverflowDepth == 30
MaxSize == 3000

\* the first operands: a type that implements Add and one that does not
SolveFirsts == {Struct(S_i64), Struct(S_bool)}

\* what a bound may be: a trait, or a generic with bounds of its own
BoundChoices ==
    { Struct(S_Add), Struct(S_Sum),
      Generic(<<"U">>, <<>>), Generic(<<"U">>, <<Struct(S_Add)>>) }

\* the second operands: a trait, or a generic with up to MaxBounds bounds
SolveSeconds ==
    {Struct(S_Add), Struct(S_Sum)}
    \cup {Generic(<<"T">>, bounds) :
             bounds \in UNION {[1..n -> BoundChoices] : n \in 0..MaxBounds}}

\* Syntax::solve is called
SolveQuery ==
    /\ solver.pc = "idle"
    /\ \E first \in SolveFirsts, second \in SolveSeconds :
          solver' = [pc |-> "bounds", first |-> first, second |-> second,
                     todo |-> <<second>>, depth |-> 0, work |-> 0,
                     overflow_depth |-> 0, max_size |-> 0,
                     overflowed |-> FALSE, answer |-> FALSE]
    /\ UNCHANGED <<regVars, monoVars, verVars, structs, parser,
                   sync, parser_utils, tokenizer>>

\* a solve that hands the solver its two caps in the other order
SolveOperandCapsSwapped ==
    /\ solver.pc = "bounds"
    /\ solver' =
          IF solver.todo = <<>>
          THEN [solver EXCEPT !.pc = "answered", !.answer = TRUE]
          ELSE IF solver.todo[1].tag = "Generic"
          THEN [solver EXCEPT !.todo = solver.todo[1].bounds \o Tail(@)]
          ELSE [solver EXCEPT !.pc = "chalk", !.depth = 0, !.work = 0,
                              !.overflow_depth = MaxSize,
                              !.max_size = OverflowDepth]
    /\ UNCHANGED <<regVars, monoVars, verVars, structs, parser,
                   sync, parser_utils, tokenizer>>

\* One step of solve on the operand it is at: the bounds of a generic are
\* solved one after the other in its place, a trait becomes a goal for a
\* new RecursiveSolver, and with nothing left the answer is true.
SolveOperand ==
    /\ solver.pc = "bounds"
    /\ solver' =
          IF solver.todo = <<>>
          THEN [solver EXCEPT !.pc = "answered", !.answer = TRUE]
          ELSE IF solver.todo[1].tag = "Generic"
          THEN [solver EXCEPT !.todo = solver.todo[1].bounds \o Tail(@)]
          ELSE [solver EXCEPT !.pc = "chalk", !.depth = 0, !.work = 0,
                              !.overflow_depth = OverflowDepth,
                              !.max_size = MaxSize]
    /\ UNCHANGED <<regVars, monoVars, verVars, structs, parser,
                   sync, parser_utils, tokenizer>>

\* the solver's search goes one goal deeper, within its caps
SolverDescend ==
    /\ solver.pc = "chalk"
    /\ solver.depth < solver.overflow_depth
    /\ solver.work < solver.max_size
    /\ solver' = [solver EXCEPT !.depth = @ + 1, !.work = @ + 1]
    /\ UNCHANGED <<regVars, monoVars, verVars, structs, parser,
                   sync, parser_utils, tokenizer>>

\* the search ends with a solution or with none: solve goes on with the
\* next operand or returns false
SolverFinish ==
    /\ solver.pc = "chalk"
    /\ solver' =
          IF Implemented(solver.first, solver.todo[1])
          THEN [solver EXCEPT !.pc = "bounds", !.todo = Tail(@)]
          ELSE [solver EXCEPT !.pc = "answered", !.answer = FALSE]
    /\ UNCHANGED <<regVars, monoVars, verVars, structs, parser,
                   sync, parser_utils, tokenizer>>

\* The search hits a cap and stops.  What the solver library does then is
\* not the repository's code: no solution, an ambiguous solution (which
\* is_some() counts as one) or a panic.
SolverOverflow ==
    /\ solver.pc = "chalk"
    /\ solver.depth >= solver.overflow_depth \/ solver.work >= solver.max_size
    /\ \E outcome \in {"none", "ambiguous", "panic"} :
          solver' =
              IF outcome = "none"
              THEN [solver EXCEPT !.pc = "answered", !.answer = FALSE,
                                  !.overflowed = TRUE]
              ELSE IF outcome = "ambiguous"
              THEN [solver EXCEPT !.pc = "bounds", !.todo = Tail(@),
                                  !.overflowed = TRUE]
              ELSE [solver EXCEPT !.pc = "panicked", !.overflowed = TRUE]
    /\ UNCHANGED <<regVars, monoVars, verVars, structs, parser,
                   sync, parser_utils, tokenizer>>

SolveInit == RegInit

SolveNext ==
    \/ SolveQuery
    \/ SolveOperand
    \/ SolverDescend
    \/ SolverFinish
    \/ SolverOverflow

SolveSpec == SolveInit /\ [][SolveNext]_vars

\* a call of solve is not abandoned: the thread that runs it takes its next
\* step, whichever it is
FairSolveSpec ==
    /\ SolveInit
    /\ [][SolveNext]_vars
    /\ WF_vars(SolveOperand)
    /\ WF_vars(SolverDescend \/ SolverFinish \/ SolverOverflow)

(***************************************************************************)
(* The expression parser: parse_effect, parse_operator and                 *)
(* assign_with_priority.                                                   *)
(***************************************************************************)
\* the priorities the operators of the input are declared with
LowPriority == 10
HighPriority == 20

\* an Effects value: a number literal, an operator with its operands, or NOP
Effect(tag, val, effects, priority, parse_left) ==
    [tag |-> tag, val |-> val, effects |-> effects, priority |-> priority,
     parse_left |-> parse_left]

NOP == Effect("NOP", <<>>, <<>>, 0, FALSE)

Number(digits) == Effect("Number", digits, <<>>, 0, FALSE)

\* OperatorEffect::new: the operator's function, its priority and its
\* parse_left flag, and the operands
OperatorEffect(function, effects) ==
    Effect("Operator", function.name, effects, function.priority,
           function.parse_left)

NoEffect == [some |-> FALSE, effect |-> NOP]

SomeEffect(effect) == [some |-> TRUE, effect |-> effect]

\* an operator function with two fields and its `operation` template
Operation(template, name, priority, parse_left) ==
    [template |-> template, name |-> name, fields |-> 2,
     priority |-> priority, parse_left |-> parse_left]

\* the operator tables: `+` and `*` with distinct priorities
OperatorTables ==
    { << Operation(<<"{", "}", "+", "{", "}">>, "plus", pq[1], l),
         Operation(<<"{", "}", "*", "{", "}">>, "times", pq[2], m) >> :
        pq \in {<<LowPriority, HighPriority>>, <<HighPriority, LowPriority>>},
        l \in BOOLEAN, m \in BOOLEAN }

Digits == {"1", "2", "3"}

OperatorBytes == {"+", "*"}

\* TypeResolver::get_function for the operator that a byte stands for
FunctionOf(table, byte) ==
    table[CHOOSE k \in DOMAIN table : table[k].template[3] = byte]

\* ParseInfo: the buffer and the index of the next byte
ParseInfo(buffer) == [buffer |-> buffer, index |-> 1]

\* ParseInfo::next_included: the next byte, if there is one
next_included(p) ==
    IF p.index > Len(p.buffer)
    THEN [some |-> FALSE, byte |-> "", p |-> p]
    ELSE [some |-> TRUE, byte |-> p.buffer[p.index],
          p |-> [p EXCEPT !.index = @ + 1]]

\* ParseInfo::matching: the text is next in the buffer
matching(p, text) ==
    /\ p.index + Len(text) - 1 <= Len(p.buffer)
    /\ SubSeq(p.buffer, p.index, p.index + Len(text) - 1) = text

\* parse_number: the digits from the index on
RECURSIVE parse_number(_, _)
parse_number(p, digits) ==
    IF p.index <= Len(p.buffer) /\ p.buffer[p.index] \in Digits
    THEN parse_number([p EXCEPT !.index = @ + 1],
                      Append(digits, p.buffer[p.index]))
    ELSE [effect |-> Number(digits), p |-> p]

VariableLoad(name) == Effect("VariableLoad", name, <<>>, 0, FALSE)

\* the ASCII codes of the bytes of the inputs
ByteCodes ==
    [b \in {"a", "b", "y", "z", "A", "B", "Y", "Z"} |->
        CASE b = "a" -> 97 [] b = "b" -> 98 [] b = "y" -> 121 [] b = "z" -> 122
          [] b = "A" -> 65 [] b = "B" -> 66 [] b = "Y" -> 89 [] b = "Z" -> 90]
    @@ [b \in {"1", "2", "3", "+", "*", "-", "!", ";", "{", "}", "\n"} |->
        CASE b = "1" -> 49 [] b = "2" -> 50 [] b = "3" -> 51 [] b = "+" -> 43
          [] b = "*" -> 42 [] b = "-" -> 45 [] b = "!" -> 33 [] b = ";" -> 59
          [] b = "{" -> 123 [] b = "}" -> 125 [] b = "\n" -> 10]

\* the guard of the arm of parse_effect that loads a variable
IsVariableStart(val) ==
    \/ ByteCodes[val] > ByteCodes["a"] /\ ByteCodes[val] < ByteCodes["z"]
    \/ ByteCodes[val] > ByteCodes["A"] /\ ByteCodes[val] < ByteCodes["Z"]

\* the bytes of an identifier
Alphanumeric(byte) ==
    \/ ByteCodes[byte] >= ByteCodes["a"] /\ ByteCodes[byte] <= ByteCodes["z"]
    \/ ByteCodes[byte] >= ByteCodes["A"] /\ ByteCodes[byte] <= ByteCodes["Z"]
    \/ ByteCodes[byte] >= 48 /\ ByteCodes[byte] <= 57

\* parse_with_references: the bytes of the identifier from the index on are
\* read until one is read that is not part of an identifier
RECURSIVE parse_with_references(_, _)
parse_with_references(p, name) ==
    LET found == next_included(p)
    IN  IF found.some /\ Alphanumeric(found.byte)
        THEN parse_with_references(found.p, Append(name, found.byte))
        ELSE [name |-> name, p |-> found.p]

\* assign_with_priority.  The right operand is swapped out for NOP.  If it is
\* an operator of lower priority (or of equal priority that parses left) it
\* becomes the root and the operator becomes its first operand; the swap of
\* `value.effects.first()` and `operator.effects.last()` before that swaps
\* two temporaries and leaves both operand lists as they are.  Otherwise the
\* right operand is swapped back.
assign_with_priority(operator) ==
    LET n == Len(operator.effects)
        temp_rhs == operator.effects[n]
        emptied == [operator EXCEPT !.effects[n] = NOP]
    IN  IF temp_rhs.tag = "Operator"
        THEN IF temp_rhs.priority < emptied.priority
                \/ (temp_rhs.priority = emptied.priority /\ temp_rhs.parse_left)
             THEN LET value == temp_rhs
                      effect == emptied
                  IN  [value EXCEPT !.effects[1] = effect]
             ELSE [emptied EXCEPT !.effects[n] = temp_rhs]
        ELSE [emptied EXCEPT !.effects[n] = temp_rhs]

RECURSIVE ParseLoop(_, _, _, _)
RECURSIVE parse_operator(_, _, _, _, _)
RECURSIVE OperationLoop(_, _, _, _, _, _, _)

\* parse_effect for an input without `let` and `if`
parse_effect(table, p, escape) == ParseLoop(table, p, NoEffect, escape)

\* The loop of parse_operator over one operation template, from op_index on.
\* A hole at the end of the template is parsed as an effect and the loop goes
\* on; a byte of the template is compared with the next byte of the input
\* and, when they are equal, the operator is returned if the function has one
\* field more than the effects parsed so far (with a left operand) or as many
\* (without), and given up otherwise.
OperationLoop(table, k, temp, last, escape, op_index, effects) ==
    LET template == table[k].template
    IN  IF matching([buffer |-> template, index |-> op_index], <<"{", "}">>)
        THEN IF op_index + 2 > Len(template)
             THEN LET r == parse_effect(table, temp, escape)
                  IN  IF r.status = "some"
                      THEN OperationLoop(table, k, r.p, last, escape,
                                         op_index + 2, Append(effects, r.effect))
                      ELSE IF r.status = "none"
                      THEN [status |-> "next", operator |-> NOP, p |-> temp]
                      ELSE [status |-> r.status, operator |-> NOP, p |-> temp]
             ELSE [status |-> "panic", operator |-> NOP, p |-> temp]
        ELSE IF op_index > Len(template)
        THEN [status |-> "next", operator |-> NOP, p |-> temp]
        ELSE LET against == next_included(temp)
             IN  IF ~against.some \/ against.byte # template[op_index]
                 THEN [status |-> "next", operator |-> NOP, p |-> temp]
                 ELSE IF last.some
                 THEN IF table[k].fields # Len(effects) + 1
                      THEN [status |-> "next", operator |-> NOP, p |-> temp]
                      ELSE [status |-> "some",
                            operator |-> OperatorEffect(table[k],
                                             <<last.effect>> \o effects),
                            p |-> against.p]
                 ELSE IF table[k].fields # Len(effects)
                      THEN [status |-> "next", operator |-> NOP, p |-> temp]
                      ELSE [status |-> "some",
                            operator |-> OperatorEffect(table[k], effects),
                            p |-> against.p]

\* parse_operator: the operations are tried in turn from the k-th on; one is
\* tried only if it starts with a hole exactly when there is a left operand
parse_operator(table, p, last, escape, k) ==
    IF k > Len(table)
    THEN [status |-> "none", operator |-> NOP, p |-> p]
    ELSE LET hole == matching([buffer |-> table[k].template, index |-> 1],
                              <<"{", "}">>)
             tried == IF hole # last.some
                      THEN [status |-> "next", operator |-> NOP, p |-> p]
                      ELSE OperationLoop(table, k, p, last, escape,
                                         IF hole THEN 3 ELSE 1, <<>>)
         IN  IF tried.status = "next"
             THEN parse_operator(table, p, last, escape, k + 1)
             ELSE tried

\* The while loop of parse_effect.  A byte of the escape set ends it, a digit
\* starts a number, a byte strictly between `a` and `z` or between `A` and
\* `Z` starts the name of a variable, any other byte of the inputs is handed
\* to parse_operator with the index moved back to it.  When parse_operator returns None the
\* loop continues with the index and the last effect unchanged, so it reads
\* the same byte again: the loop never ends.
ParseLoop(table, p, last, escape) ==
    LET next == next_included(p)
    IN  IF ~next.some
        THEN [status |-> IF last.some THEN "some" ELSE "none",
              effect |-> last.effect, p |-> p]
        ELSE IF next.byte \in Range(escape)
        THEN [status |-> IF last.some THEN "some" ELSE "none",
              effect |-> last.effect, p |-> next.p]
        ELSE IF next.byte \in Digits
        THEN LET number == parse_number(p, <<>>)
             IN  ParseLoop(table, number.p, SomeEffect(number.effect), escape)
        ELSE IF IsVariableStart(next.byte)
        THEN LET found == parse_with_references(p, <<>>)
             IN  IF found.p.index > Len(found.p.buffer)
                    \/ found.p.buffer[found.p.index] = "!"
                 THEN [status |-> "panic", effect |-> NOP, p |-> found.p]
                 ELSE ParseLoop(table, [found.p EXCEPT !.index = @ - 1],
                                SomeEffect(VariableLoad(found.name)), escape)
        ELSE LET r == parse_operator(table, p, last, escape, 1)
             IN  IF r.status = "some"
                 THEN [status |-> "some",
                       effect |-> IF last.some
                                  THEN assign_with_priority(r.operator)
                                  ELSE r.operator,
                       p |-> r.p]
                 ELSE IF r.status = "none"
                 THEN [status |-> "loops", effect |-> NOP, p |-> p]
                 ELSE [status |-> r.status, effect |-> NOP, p |-> p]

\* the inputs `a OP1 b OP2 c;` with two different operators
ParserInputs ==
    { [a |-> a, op1 |-> op1, b |-> b, op2 |-> op2, c |-> c] :
        a \in Digits, b \in Digits, c \in Digits,
        op1 \in OperatorBytes, op2 \in OperatorBytes } \
    { [a |-> a, op1 |-> op, b |-> b, op2 |-> op, c |-> c] :
        a \in Digits, b \in Digits, c \in Digits, op \in OperatorBytes }

InputText(input) ==
    <<input.a, input.op1, input.b, input.op2, input.c, ";">>

\* the effect parse_operator is to hand over for `a OP1 b OP2 c`: OP1 with
\* the left operand and the parse of the rest
RightNested(table, input) ==
    OperatorEffect(FunctionOf(table, input.op1),
        << Number(<<input.a>>),
           OperatorEffect(FunctionOf(table, input.op2),
               <<Number(<<input.b>>), Number(<<input.c>>)>>) >>)

\* parse_expression is called on a line
ParseCall ==
    /\ parser.pc = "idle"
    /\ \E table \in OperatorTables, input \in ParserInputs :
          parser' = [pc |-> "called", table |-> table, input |-> input,
                     operator |-> NOP, result |-> NOP]
    /\ UNCHANGED <<regVars, monoVars, verVars, structs, solver,
                   sync, parser_utils, tokenizer>>

\* parse_effect runs on the line: it returns an effect or none, or it does
\* not return
ParseEffect ==
    /\ parser.pc = "called"
    /\ LET r == parse_effect(parser.table,
                             ParseInfo(InputText(parser.input)),
                             <<";", "}">>)
       IN  parser' = [parser EXCEPT
               !.pc = IF r.status \in {"some", "none"} THEN "returned"
                      ELSE IF r.status = "loops" THEN "looping"
                      ELSE "panicked",
               !.result = r.effect]
    /\ UNCHANGED <<regVars, monoVars, verVars, structs, solver,
                   sync, parser_utils, tokenizer>>

\* assign_with_priority is handed the operator of `a OP1 b OP2 c`
AssignCall ==
    /\ parser.pc = "idle"
    /\ \E table \in OperatorTables, input \in ParserInputs :
          parser' = [pc |-> "built", table |-> table, input |-> input,
                     operator |-> RightNested(table, input), result |-> NOP]
    /\ UNCHANGED <<regVars, monoVars, verVars, structs, solver,
                   sync, parser_utils, tokenizer>>

\* assign_with_priority returns
AssignWithPriority ==
    /\ parser.pc = "built"
    /\ parser' = [parser EXCEPT
           !.pc = "assigned",
           !.result = assign_with_priority(parser.operator)]
    /\ UNCHANGED <<regVars, monoVars, verVars, structs, solver,
                   sync, parser_utils, tokenizer>>

ParserInit == RegInit

ParserNext ==
    \/ ParseCall
    \/ ParseEffect
    \/ AssignCall
    \/ AssignWithPriority

ParserSpec == ParserInit /\ [][ParserNext]_vars

\* the operator tables of `+` and `*` with distinct and with equal priorities
PriorityTables ==
    { << Operation(<<"{", "}", "+", "{", "}">>, "plus", pq[1], l),
         Operation(<<"{", "}", "*", "{", "}">>, "times", pq[2], m) >> :
        pq \in {<<LowPriority, HighPriority>>, <<HighPriority, LowPriority>>,
                <<LowPriority, LowPriority>>},
        l \in BOOLEAN, m \in BOOLEAN }

\* assign_with_priority is handed the operator of `a OP1 b OP2 c`, whatever
\* the priorities of the two operators
AssignAnyCall ==
    /\ parser.pc = "idle"
    /\ \E table \in PriorityTables, input \in ParserInputs :
          parser' = [pc |-> "built", table |-> table, input |-> input,
                     operator |-> RightNested(table, input), result |-> NOP]
    /\ UNCHANGED <<regVars, monoVars, verVars, structs, solver,
                   sync, parser_utils, tokenizer>>

AssignNext ==
    \/ AssignAnyCall
    \/ AssignWithPriority

AssignSpec == ParserInit /\ [][AssignNext]_vars

\* an operator function with its `operation` template and its fields
OperationOf(template, name, fields) ==
    [template |-> template, name |-> name, fields |-> fields,
     priority |-> LowPriority, parse_left |-> FALSE]

\* the operators `{}!`, `{}++`, `-{}` and `{}+{}`
Factorial == OperationOf(<<"{", "}", "!">>, "factorial", 1)
Increment == OperationOf(<<"{", "}", "+", "+">>, "increment", 1)
Negate == OperationOf(<<"-", "{", "}">>, "negate", 1)
Plus == OperationOf(<<"{", "}", "+", "{", "}">>, "plus", 2)

OperationChoices == {Factorial, Increment, Negate, Plus}

\* TypeResolver::get_operations: one operator, or two in either order
OperationTables ==
    { <<operation>> : operation \in OperationChoices }
        \cup ({ <<first, second>> :
                  first \in OperationChoices, second \in OperationChoices }
              \ { <<operation, operation>> : operation \in OperationChoices })

\* what follows the cursor when parse_operator is called
OperatorTexts ==
    { <<"!", ";">>, <<"+", "+", ";">>, <<"+", "2", ";">>, <<"-", "1", ";">>,
      <<"*", "2", ";">>, <<"+", ";">> }

\* parse_effect meets an operator byte, with or without an effect parsed
\* before it
OperatorCall ==
    /\ parser.pc = "idle"
    /\ \E table \in OperationTables, text \in OperatorTexts,
          last \in {NoEffect, SomeEffect(Number(<<"1">>))} :
          parser' = [pc |-> "called", table |-> table,
                     parsing |-> ParseInfo(text), last |-> last,
                     status |-> "none", operator |-> NOP]
    /\ UNCHANGED <<regVars, monoVars, verVars, structs, solver,
                   sync, parser_utils, tokenizer>>

\* parse_operator returns: an operator, with `parsing` set to the copy that
\* was advanced and the left operand swapped out for NOP, or None
ParseOperator ==
    /\ parser.pc = "called"
    /\ LET r == parse_operator(parser.table, parser.parsing, parser.last,
                               <<";", "}">>, 1)
       IN  parser' = [parser EXCEPT
               !.pc = IF r.status \in {"some", "none"} THEN "returned"
                      ELSE IF r.status = "loops" THEN "looping"
                      ELSE "panicked",
               !.status = r.status,
               !.operator = r.operator,
               !.parsing = r.p,
               !.last = IF r.status = "some" /\ parser.last.some
                        THEN SomeEffect(NOP) ELSE parser.last]
    /\ UNCHANGED <<regVars, monoVars, verVars, structs, solver,
                   sync, parser_utils, tokenizer>>

OperatorInit == RegInit

OperatorNext ==
    \/ OperatorCall
    \/ ParseOperator

OperatorSpec == OperatorInit /\ [][OperatorNext]_vars

\* the letters an identifier of the inputs starts with: the first two and the
\* last two of each case
Letters == {"a", "b", "y", "z", "A", "B", "Y", "Z"}

\* an identifier of one or two bytes
Identifiers ==
    { <<letter>> : letter \in Letters }
        \cup { <<letter, byte>> : letter \in Letters, byte \in {"b", "1"} }

\* parse_effect is called on a line that is an identifier
VariableCall ==
    /\ parser.pc = "idle"
    /\ \E table \in OperationTables, name \in Identifiers :
          parser' = [pc |-> "called", table |-> table, name |-> name,
                     parsing |-> ParseInfo(name \o <<";", "\n">>),
                     status |-> "none", result |-> NOP]
    /\ UNCHANGED <<regVars, monoVars, verVars, structs, solver,
                   sync, parser_utils, tokenizer>>

\* parse_effect runs on the identifier: it returns an effect or none, or it
\* does not return
VariableParse ==
    /\ parser.pc = "called"
    /\ LET r == parse_effect(parser.table, parser.parsing, <<";", "}">>)
       IN  parser' = [parser EXCEPT
               !.pc = IF r.status \in {"some", "none"} THEN "returned"
                      ELSE IF r.status = "loops" THEN "looping"
                      ELSE "panicked",
               !.parsing = r.p,
               !.status = r.status,
               !.result = r.effect]
    /\ UNCHANGED <<regVars, monoVars, verVars, structs, solver,
                   sync, parser_utils, tokenizer>>

VariableNext ==
    \/ VariableCall
    \/ VariableParse

VariableSpec == ParserInit /\ [][VariableNext]_vars

(***************************************************************************)
(* The Syntax mutex in degeneric, degeneric_code and FunctionData::verify: *)
(* where each function takes the lock, where the guard is dropped and      *)
(* where the function awaits.                                              *)
(***************************************************************************)
\* one step of a function: what it does, the line it is on and the steps
\* that may follow (0 is the return)
Step(op, line, next) == [op |-> op, line |-> line, next |-> next]

\* a degeneric whose guard of the lookup is bound to a variable that lives
\* until the function returns
DegenericStepsGuardKept ==
    << Step("await", 160, {0, 2}),
       Step("await", 175, {0, 2, 3}),
       Step("lock", 191, {4}),
       Step("unlock", 191, {5, 8}),
       Step("lock", 192, {6}),
       Step("await", 193, {7}),
       Step("unlock", 193, {0}),
       Step("await", 204, {0, 8, 9}),
       Step("await", 211, {0, 10}),
       Step("lock", 219, {11}),
       Step("work", 220, {12}),
       Step("work", 225, {13}),
       Step("unlock", 226, {0}) >>

\* CodelessFinalizedFunction::degeneric.  The guards at 191 and 192 are
\* temporaries of a condition and of a let statement and are dropped with
\* them; the guard `locked` of 219 lives to the return at 226, and nothing
\* is awaited in between.  An await that yields an Err returns through `?`.
DegenericSteps ==
    << Step("await", 160, {0, 2}),
       Step("await", 175, {0, 2, 3}),
       Step("lock", 191, {4}),
       Step("unlock", 191, {5, 8}),
       Step("lock", 192, {6}),
       Step("unlock", 192, {7}),
       Step("await", 193, {0}),
       Step("await", 204, {0, 8, 9}),
       Step("await", 211, {0, 10}),
       Step("lock", 219, {11}),
       Step("work", 220, {12}),
       Step("work", 225, {13}),
       Step("unlock", 226, {0}) >>

\* degeneric_code: the guard of the loop condition at 241 is dropped before
\* thread::yield_now, the guards at 246 and 260 with their statements
DegenericCodeSteps ==
    << Step("lock", 241, {2}),
       Step("unlock", 241, {3, 4}),
       Step("yield", 242, {1}),
       Step("lock", 246, {5}),
       Step("unlock", 246, {6}),
       Step("await", 250, {0, 7}),
       Step("lock", 260, {8}),
       Step("work", 260, {9}),
       Step("unlock", 260, {0}) >>

\* FunctionData::verify
VerifySteps ==
    << Step("await", 89, {2}),
       Step("await", 91, {3}),
       Step("lock", 93, {4}),
       Step("work", 93, {5}),
       Step("unlock", 93, {0}) >>

\* the tasks that share the registry: two calls of degeneric, a
\* degeneric_code task and a verify task
LockTasks == <<DegenericSteps, DegenericSteps, DegenericCodeSteps, VerifySteps>>

\* the step the task t is at
StepOf(t) == LockTasks[t][sync.at[t]]

\* the tasks are spawned
LockSpawn ==
    /\ sync.pc = "idle"
    /\ sync' = [pc |-> "running", mutex |-> 0,
                at |-> [t \in DOMAIN LockTasks |-> 1],
                suspended |-> [t \in DOMAIN LockTasks |-> FALSE]]
    /\ UNCHANGED <<regVars, monoVars, verVars, structs, solver, parser,
                   parser_utils, tokenizer>>

\* the task t is running and at a step
Running(t) ==
    /\ sync.pc = "running"
    /\ sync.at[t] # 0
    /\ ~sync.suspended[t]

\* Mutex::lock: the task goes on when no guard is alive
Lock(t) ==
    /\ Running(t)
    /\ StepOf(t).op = "lock"
    /\ sync.mutex = 0
    /\ \E n \in StepOf(t).next :
          sync' = [sync EXCEPT !.mutex = t, !.at[t] = n]
    /\ UNCHANGED <<regVars, monoVars, verVars, structs, solver, parser,
                   parser_utils, tokenizer>>

\* the guard is dropped
Unlock(t) ==
    /\ Running(t)
    /\ StepOf(t).op = "unlock"
    /\ \E n \in StepOf(t).next :
          sync' = [sync EXCEPT !.mutex = IF @ = t THEN 0 ELSE @, !.at[t] = n]
    /\ UNCHANGED <<regVars, monoVars, verVars, structs, solver, parser,
                   parser_utils, tokenizer>>

\* a step that neither locks nor awaits: an insert under the guard, a spawn,
\* thread::yield_now
Work(t) ==
    /\ Running(t)
    /\ StepOf(t).op \in {"work", "yield"}
    /\ \E n \in StepOf(t).next :
          sync' = [sync EXCEPT !.at[t] = n]
    /\ UNCHANGED <<regVars, monoVars, verVars, structs, solver, parser,
                   parser_utils, tokenizer>>

\* an await whose future is not ready: the task is suspended where it is
Suspend(t) ==
    /\ Running(t)
    /\ StepOf(t).op = "await"
    /\ sync' = [sync EXCEPT !.suspended[t] = TRUE]
    /\ UNCHANGED <<regVars, monoVars, verVars, structs, solver, parser,
                   parser_utils, tokenizer>>

\* the awaited future is ready, at the first poll or after a suspension
Resume(t) ==
    /\ sync.pc = "running"
    /\ sync.at[t] # 0
    /\ StepOf(t).op = "await"
    /\ \E n \in StepOf(t).next :
          sync' = [sync EXCEPT !.suspended[t] = FALSE, !.at[t] = n]
    /\ UNCHANGED <<regVars, monoVars, verVars, structs, solver, parser,
                   parser_utils, tokenizer>>

LockInit == RegInit

LockNext ==
    \/ LockSpawn
    \/ \E t \in DOMAIN LockTasks : Lock(t)
    \/ \E t \in DOMAIN LockTasks : Unlock(t)
    \/ \E t \in DOMAIN LockTasks : Work(t)
    \/ \E t \in DOMAIN LockTasks : Suspend(t)
    \/ \E t \in DOMAIN LockTasks : Resume(t)

LockSpec == LockInit /\ [][LockNext]_vars

(***************************************************************************)
(* The code parser: parse_code, parse_line, parse_string, parse_let,       *)
(* parse_new and parse_new_args on a token stream.                         *)
(***************************************************************************)
\* a token: its type and the text of its span in the buffer
Token(type, text) == [type |-> type, text |-> text]

\* an Effects value or an Expression.  `receiver` is the optional receiver of
\* a method call, `args` the effects it is built from.
Effects(tag, name, number, receiver, args) ==
    [tag |-> tag, name |-> name, number |-> number, receiver |-> receiver,
     args |-> args]

NOPEffect == Effects("NOP", <<>>, 0, <<>>, <<>>)

IntEffect(n) == Effects("Int", <<>>, n, <<>>, <<>>)

FloatEffect(n) == Effects("Float", <<>>, n, <<>>, <<>>)

BoolEffect(b) == Effects("Bool", <<>>, IF b THEN 1 ELSE 0, <<>>, <<>>)

StringEffect(string) == Effects("String", string, 0, <<>>, <<>>)

LoadVariable(name) == Effects("LoadVariable", name, 0, <<>>, <<>>)

Load(effect, name) == Effects("Load", name, 0, <<>>, <<effect>>)

Paren(effect) == Effects("Paren", <<>>, 0, <<>>, <<effect>>)

CodeBody(lines, label) == Effects("CodeBody", label, 0, <<>>, lines)

MethodCall(receiver, name, args) ==
    Effects("MethodCall", name, 0, receiver, args)

SetEffect(target, value) == Effects("Set", <<>>, 0, <<>>, <<target, value>>)

CreateVariable(name, value) ==
    Effects("CreateVariable", name, 0, <<>>, <<value>>)

\* a (name, effect) pair of a struct literal
NamedValue(name, effect) == Effects("Value", name, 0, <<>>, <<effect>>)

CreateStruct(type, values) == Effects("CreateStruct", type, 0, <<>>, values)

\* the effect of the operator parser
OperatorNode(operator, operands) ==
    Effects("Operator", operator, 0, <<>>, operands)

\* Expression::new
Expression(expression_type, effect) ==
    Effects(expression_type, <<>>, 0, <<>>, <<effect>>)

DecimalDigits == <<"0", "1", "2", "3", "4", "5", "6", "7", "8", "9">>

\* str::parse of a string of digits
RECURSIVE ParseDigits(_)
ParseDigits(text) ==
    IF text = <<>> THEN 0
    ELSE ParseDigits(SubSeq(text, 1, Len(text) - 1)) * 10
         + (CHOOSE d \in 0..9 : DecimalDigits[d + 1] = text[Len(text)])

\* str::parse of a float with one digit after the point, in tenths
ParseFloat(text) == ParseDigits(SelectSeq(text, LAMBDA c : c # "."))

\* usize::to_string
RECURSIVE to_string(_)
to_string(n) ==
    IF n < 10 THEN <<DecimalDigits[n + 1]>>
    ELSE to_string(n \div 10) \o <<DecimalDigits[(n % 10) + 1]>>

\* what a call of a parse function returns: Ok(Some(value)), Ok(None),
\* Err(error), or a panic; with the ParserUtils as the call left them.
\* `types` is the ExpressionType that parse_code returns beside the body.
Ret(status, value, error, types, pu) ==
    [status |-> status, value |-> value, error |-> error, types |-> types,
     pu |-> pu]

Panic(pu) == Ret("panic", NOPEffect, "", "Line", pu)

Err(error, pu) == Ret("err", NOPEffect, error, "Line", pu)

OkNone(pu) == Ret("none", NOPEffect, "", "Line", pu)

OkSome(value, pu) == Ret("some", value, "", "Line", pu)

\* parser_utils.tokens.get(i): the index counts from 0
InRange(pu, i) == i >= 0 /\ i < Len(pu.tokens)

Tok(pu, i) == pu.tokens[i + 1]

Advance(pu, n) == [pu EXCEPT !.index = @ + n]

\* an effect slot that is taken for empty whatever it holds
NeverSome(option) == FALSE

\* Option::is_some
is_some(option) == option # <<>>

\* the end of parse_line: the expression of the effect, NOP if there is none
LineBreak(pu, expression_type, effect) ==
    OkSome(Expression(expression_type,
                      IF effect = <<>> THEN NOPEffect ELSE effect[1]), pu)

RECURSIVE parse_code(_)
RECURSIVE CodeLines(_, _, _)
RECURSIVE parse_line(_, _)
RECURSIVE LineLoop(_, _, _, _)
RECURSIVE ArgumentLoop(_, _)
RECURSIVE LineParenOpen(_, _, _, _)
RECURSIVE LineEquals(_, _, _, _, _)
RECURSIVE LineBlockStart(_, _, _, _)
RECURSIVE operator_parser(_, _, _)
RECURSIVE parse_string(_, _)
RECURSIVE parse_let(_)
RECURSIVE parse_new(_, _)
RECURSIVE parse_new_args(_, _, _)

\* the loop of parse_code: lines are parsed until parse_line returns None
CodeLines(pu, lines, types) ==
    LET r == parse_line(pu, "None")
    IN  IF r.status = "some"
        THEN CodeLines(r.pu, Append(lines, r.value),
                       IF r.value.tag # "Line" THEN r.value.tag ELSE types)
        ELSE IF r.status = "none"
        THEN Ret("some", <<>>, "", types, r.pu) @@ [lines |-> lines]
        ELSE r @@ [lines |-> <<>>]

\* a parse_code that labels the body and leaves last_id as it is
ParseCodeKeepingId(pu) ==
    LET r == CodeLines(pu, <<>>, "Line")
    IN  IF r.status = "some"
        THEN Ret("some", CodeBody(r.lines, to_string(r.pu.last_id)), "",
                 r.types, r.pu)
        ELSE Ret(r.status, NOPEffect, r.error, "Line", r.pu)

\* parse_code: the lines, then last_id is incremented and the body is
\* labelled with the id before the increment
parse_code(pu) ==
    LET r == CodeLines(pu, <<>>, "Line")
    IN  IF r.status = "some"
        THEN LET done == [r.pu EXCEPT !.last_id = @ + 1]
             IN  Ret("some", CodeBody(r.lines, to_string(done.last_id - 1)), "",
                     r.types, done)
        ELSE Ret(r.status, NOPEffect, r.error, "Line", r.pu)

parse_line(pu, state) == LineLoop(pu, state, <<>>, "Line")

\* an argument loop that goes on whatever token ended the argument
ArgumentLoopUnchecked(pu, effects) ==
    LET r == parse_line(pu, "None")
    IN  IF r.status = "some"
        THEN ArgumentLoop(r.pu, Append(effects, r.value.args[1]))
        ELSE IF r.status = "none"
        THEN Ret("some", <<>>, "", "Line", r.pu) @@ [effects |-> effects]
        ELSE r @@ [effects |-> <<>>]

\* the loop over the arguments of a call: an argument is parsed and the loop
\* goes on if the token before the cursor is an ArgumentEnd
ArgumentLoop(pu, effects) ==
    LET r == parse_line(pu, "None")
    IN  IF r.status = "some"
        THEN IF Tok(r.pu, r.pu.index - 1).type = "ArgumentEnd"
             THEN ArgumentLoop(r.pu, Append(effects, r.value.args[1]))
             ELSE Ret("some", <<>>, "", "Line", r.pu)
                  @@ [effects |-> Append(effects, r.value.args[1])]
        ELSE IF r.status = "none"
        THEN Ret("some", <<>>, "", "Line", r.pu) @@ [effects |-> effects]
        ELSE r @@ [effects |-> <<>>]

\* parse_line at a ParenOpen: a call if the token before it is a Variable or
\* a CallingType, a parenthesised expression otherwise
LineParenOpen(pu, state, effect, expression_type) ==
    LET last == Tok(pu, pu.index - 2)
    IN  IF last.type \in {"Variable", "CallingType"}
        THEN IF ~InRange(pu, pu.index) THEN Panic(pu)
             ELSE IF Tok(pu, pu.index).type # "ParenClose"
             THEN LET r == ArgumentLoop(pu, <<>>)
                  IN  IF r.status = "some"
                      THEN LineLoop(r.pu, state,
                               <<MethodCall(effect, last.text, r.effects)>>,
                               expression_type)
                      ELSE Ret(r.status, NOPEffect, r.error, "Line", r.pu)
             ELSE LineLoop(Advance(pu, 1), state,
                           <<MethodCall(effect, last.text, <<>>)>>,
                           expression_type)
        ELSE LET r == parse_line(pu, state)
             IN  IF r.status = "some"
                 THEN LineLoop(r.pu, state, <<Paren(r.value.args[1])>>,
                               expression_type)
                 ELSE IF r.status = "none"
                 THEN LineLoop(r.pu, state, <<>>, expression_type)
                 ELSE r

\* The operator parser, which is handed the effect parsed so far.  It takes
\* the operator's tokens (the token before the cursor and the Operator and
\* Equals tokens after it), parses the operand to the right and leaves the
\* cursor on the token that ended the operand.
operator_parser(effect, pu, state) ==
    LET RECURSIVE OperatorEnd(_)
        OperatorEnd(i) ==
            IF InRange(pu, i) /\ Tok(pu, i).type \in {"Operator", "Equals"}
            THEN OperatorEnd(i + 1) ELSE i
        end == OperatorEnd(pu.index)
        text == [i \in 1..(end - pu.index + 1) |->
                    Tok(pu, pu.index - 2 + i).text[1]]
        r == parse_line([pu EXCEPT !.index = end],
                        IF state \in {"ControlVariable", "ControlOperator"}
                        THEN "ControlOperator" ELSE "InOperator")
        back == IF Tok(r.pu, r.pu.index - 1).type
                      \in {"LineEnd", "ParenClose", "ArgumentEnd"}
                THEN 1 ELSE 0
    IN  IF r.status = "some"
        THEN OkSome(OperatorNode(text, effect \o <<r.value.args[1]>>),
                    Advance(r.pu, 0 - back))
        ELSE IF r.status = "none"
        THEN Err("Expected an operand!", r.pu)
        ELSE r

\* parse_line at an Equals: an assignment if there is an effect and the next
\* token is neither an Operator nor an Equals, an operator otherwise
LineEquals(token, pu, state, effect, expression_type) ==
    IF ~InRange(pu, pu.index) THEN Panic(pu)
    ELSE LET other == Tok(pu, pu.index).type
         IN  IF effect # <<>> /\ other # "Operator" /\ other # "Equals"
             THEN LET value == parse_line(pu, "None")
                  IN  IF value.status = "some"
                      THEN LineBreak(value.pu, expression_type,
                               <<SetEffect(effect[1], value.value.args[1])>>)
                      ELSE IF value.status = "none"
                      THEN Err("Tried to assign a void value!", value.pu)
                      ELSE value
             ELSE LET operator == operator_parser(effect, pu, state)
                  IN  IF operator.status # "some" THEN operator
                      ELSE IF state \in {"InOperator", "ControlOperator"}
                      THEN OkSome(Expression(expression_type, operator.value),
                                  operator.pu)
                      ELSE LineLoop(operator.pu, state, <<operator.value>>,
                                    expression_type)

\* parse_line at a BlockStart: the end of the line inside the variable of a
\* control statement, a nested body otherwise
LineBlockStart(pu, state, effect, expression_type) ==
    IF state \in {"ControlVariable", "ControlOperator"}
    THEN LineBreak(pu, expression_type, effect)
    ELSE IF effect # <<>> THEN Err("Unexpected block!", pu)
    ELSE LET r == parse_code(pu)
         IN  IF r.status # "some" THEN r
             ELSE LineLoop(r.pu, state, <<r.value>>,
                           IF expression_type = "Line" THEN r.types
                           ELSE expression_type)

\* The loop of parse_line: the token at the cursor is taken, the cursor is
\* moved on and the token decides.  Tokens of the control statements and the
\* `<` of a generic call are not among the inputs.
LineLoop(pu0, state, effect, expression_type) ==
    IF ~InRange(pu0, pu0.index) THEN Panic(pu0)
    ELSE
    LET token == Tok(pu0, pu0.index)
        pu == Advance(pu0, 1)
        type == token.type
    IN  IF type = "ParenOpen"
        THEN LineParenOpen(pu, state, effect, expression_type)
        ELSE IF type = "Float"
        THEN IF is_some(effect) THEN Err("Unexpected float!", pu)
             ELSE LineLoop(pu, state, <<FloatEffect(ParseFloat(token.text))>>,
                           expression_type)
        ELSE IF type = "Integer"
        THEN IF is_some(effect) THEN Err("Unexpected integer!", pu)
             ELSE LineLoop(pu, state, <<IntEffect(ParseDigits(token.text))>>,
                           expression_type)
        ELSE IF type \in {"True", "False"}
        THEN IF is_some(effect) THEN Err("Unexpected boolean!", pu)
             ELSE LineLoop(pu, state, <<BoolEffect(type = "True")>>,
                           expression_type)
        ELSE IF type = "StringStart"
        THEN IF is_some(effect) THEN Err("Unexpected string!", pu)
             ELSE LET r == parse_string(pu, <<>>)
                  IN  IF r.status # "some" THEN r
                      ELSE LineLoop(r.pu, state, <<r.value>>, expression_type)
        ELSE IF type \in {"LineEnd", "ParenClose", "ArgumentEnd"}
        THEN LineBreak(pu, expression_type, effect)
        ELSE IF type \in {"CodeEnd", "BlockEnd"}
        THEN IF is_some(effect) THEN Err("Unexpected code end!", pu)
             ELSE OkNone(pu)
        ELSE IF type = "Variable"
        THEN IF ~InRange(pu, pu.index) THEN Panic(pu)
             ELSE LET next == Tok(pu, pu.index)
                  IN  IF next.type = "ParenOpen"
                      THEN LineLoop(pu, state, effect, expression_type)
                      ELSE IF next.type = "Operator"
                      THEN LineLoop(pu, state, <<LoadVariable(token.text)>>,
                                    expression_type)
                      ELSE IF is_some(effect) THEN Err("Unexpected value!", pu)
                      ELSE LineLoop(pu, state, <<LoadVariable(token.text)>>,
                                    expression_type)
        ELSE IF type = "Return"
        THEN LineLoop(pu, state, effect, "Return")
        ELSE IF type = "New"
        THEN IF is_some(effect) THEN Err("Unexpected new!", pu)
             ELSE LET r == parse_new(pu, <<>>)
                  IN  IF r.status # "some" THEN r
                      ELSE LineLoop(r.pu, state, <<r.value>>, expression_type)
        ELSE IF type = "BlockStart"
        THEN LineBlockStart(pu, state, effect, expression_type)
        ELSE IF type = "Let"
        THEN IF is_some(effect) THEN Err("Unexpected let!", pu)
             ELSE LET r == parse_let(pu)
                  IN  IF r.status # "some" THEN r
                      ELSE OkSome(Expression(expression_type, r.value), r.pu)
        ELSE IF type = "Equals"
        THEN LineEquals(token, pu, state, effect, expression_type)
        ELSE IF type = "Operator"
        THEN LET operator == operator_parser(effect, pu, state)
             IN  IF operator.status # "some" THEN operator
                 ELSE IF state \in {"InOperator", "ControlOperator"}
                 THEN OkSome(Expression(expression_type, operator.value),
                             operator.pu)
                 ELSE LineLoop(operator.pu, state, <<operator.value>>,
                               expression_type)
        ELSE IF type = "CallingType"
        THEN IF ~InRange(pu, pu.index) THEN Panic(pu)
             ELSE IF Tok(pu, pu.index).type = "ParenOpen"
             THEN LineLoop(pu, state, effect, expression_type)
             ELSE IF effect = <<>> THEN Err("Extra period!", pu)
             ELSE LineLoop(pu, state, <<Load(effect[1], token.text)>>,
                           expression_type)
        ELSE IF type = "EOF"
        THEN OkNone(pu)
        ELSE IF type = "Else"
        THEN Err("Unexpected Else!", pu)
        ELSE IF type \in {"Period", "Comment"}
        THEN LineLoop(pu, state, effect, expression_type)
        ELSE Panic(pu)

\* parse_string: the text of the escapes and of the end of the string,
\* each without its last byte, and a NUL at the end
parse_string(pu0, string) ==
    IF ~InRange(pu0, pu0.index) THEN Panic(pu0)
    ELSE
    LET token == Tok(pu0, pu0.index)
        pu == Advance(pu0, 1)
        found == SubSeq(token.text, 1, Len(token.text) - 1)
    IN  IF token.type = "StringEnd"
        THEN OkSome(StringEffect(string \o found \o <<"NUL">>), pu)
        ELSE IF token.type = "StringEscape"
        THEN parse_string(pu, string \o found)
        ELSE IF token.type = "StringStart"
        THEN parse_string(pu, string)
        ELSE Panic(pu)

\* parse_let: a Variable and an Equals, then the value
parse_let(pu) ==
    IF ~InRange(pu, pu.index) THEN Panic(pu)
    ELSE LET next == Tok(pu, pu.index)
         IN  IF next.type # "Variable"
             THEN Err("Unexpected token, expected variable name!", pu)
             ELSE IF ~InRange(pu, pu.index + 1) THEN Panic(pu)
             ELSE IF Tok(pu, pu.index + 1).type # "Equals"
             THEN Err("Unexpected token, expected equals!", pu)
             ELSE LET r == parse_line(Advance(pu, 2), "None")
                  IN  IF r.status = "some"
                      THEN OkSome(CreateVariable(next.text, r.value.args[1]),
                                  r.pu)
                      ELSE IF r.status = "none"
                      THEN IF InRange(r.pu, r.pu.index)
                           THEN Err("Expected value, found void!", r.pu)
                           ELSE Panic(r.pu)
                      ELSE r

\* parse_new: the name of the type, then the values in braces
parse_new(pu0, types) ==
    IF ~InRange(pu0, pu0.index) THEN Panic(pu0)
    ELSE
    LET token == Tok(pu0, pu0.index)
        pu == Advance(pu0, 1)
    IN  IF token.type = "Variable"
        THEN parse_new(pu, <<token.text>>)
        ELSE IF token.type = "BlockStart"
        THEN LET values == parse_new_args(pu, <<>>, <<>>)
             IN  IF values.status # "some"
                 THEN Ret(values.status, NOPEffect, values.error, "Line",
                          values.pu)
                 ELSE IF types = <<>> THEN Panic(values.pu)
                 ELSE OkSome(CreateStruct(types[1], values.values), values.pu)
        ELSE IF token.type = "InvalidCharacters"
        THEN parse_new(pu, types)
        ELSE Panic(pu)

\* The loop of parse_new_args.  A Variable sets the name; a Colon parses an
\* effect and pushes it with the name; an ArgumentEnd pushes the name with
\* the load of the variable of that name; a BlockEnd ends the loop.
parse_new_args(pu0, values, name) ==
    IF ~InRange(pu0, pu0.index) THEN Panic(pu0) @@ [values |-> <<>>]
    ELSE
    LET token == Tok(pu0, pu0.index)
        pu == Advance(pu0, 1)
    IN  IF token.type = "Variable"
        THEN parse_new_args(pu, values, token.text)
        ELSE IF token.type = "Colon"
        THEN LET r == parse_line(pu, "None")
             IN  IF r.status = "some"
                 THEN parse_new_args(r.pu,
                          Append(values, NamedValue(name, r.value.args[1])),
                          <<>>)
                 ELSE IF r.status = "none"
                 THEN Err("Expected effect!", r.pu) @@ [values |-> <<>>]
                 ELSE r @@ [values |-> <<>>]
        ELSE IF token.type = "ArgumentEnd"
        THEN parse_new_args(pu,
                 Append(values, NamedValue(name, LoadVariable(name))), <<>>)
        ELSE IF token.type = "BlockEnd"
        THEN Ret("some", NOPEffect, "", "Line", pu) @@ [values |-> values]
        ELSE IF token.type \in {"InvalidCharacters", "Comment"}
        THEN parse_new_args(pu, values, name)
        ELSE Panic(pu) @@ [values |-> <<>>]

(***************************************************************************)
(* The token streams handed to the code parser.                            *)
(***************************************************************************)
\* how many tokens a stream of arbitrary tokens has
MaxTokens == 3
\* how many arguments a call has
MaxArgs == 2
\* how many entries a struct literal has
MaxEntries == 2
\* how many bodies a body holds, and how many the stream holds
MaxBodies == 2

T_x == Token("Variable", <<"x">>)
T_y == Token("Variable", <<"y">>)
T_f == Token("Variable", <<"f">>)
T_g == Token("Variable", <<"g">>)
T_P == Token("Variable", <<"P">>)
T_call == Token("CallingType", <<"f">>)
T_period == Token("Period", <<".">>)
T_open == Token("ParenOpen", <<"(">>)
T_close == Token("ParenClose", <<")">>)
T_comma == Token("ArgumentEnd", <<",">>)
T_end == Token("LineEnd", <<";">>)
T_int == Token("Integer", <<"4", "2">>)
T_float == Token("Float", <<"1", ".", "5">>)
T_true == Token("True", <<"t", "r", "u", "e">>)
T_false == Token("False", <<"f", "a", "l", "s", "e">>)
T_quote == Token("StringStart", <<"\"">>)
T_string == Token("StringEnd", <<"h", "i", "\"">>)
T_block == Token("BlockStart", <<"{">>)
T_blockend == Token("BlockEnd", <<"}">>)
T_equals == Token("Equals", <<"=">>)
T_plus == Token("Operator", <<"+">>)
T_colon == Token("Colon", <<":">>)
T_new == Token("New", <<"n", "e", "w">>)
T_let == Token("Let", <<"l", "e", "t">>)
T_eof == Token("EOF", <<>>)

\* the tokens a stream of arbitrary tokens is made of
TokenChoices ==
    { T_x, T_open, T_close, T_comma, T_end, T_int, T_float, T_true, T_false,
      T_quote,
      T_string, T_block, T_blockend, T_equals, T_colon, T_new, T_let }

\* the tokens of the function's head, before the first token of its body
Preamble == <<T_close, T_block>>

RECURSIVE Flatten(_)
Flatten(seqs) ==
    IF seqs = <<>> THEN <<>> ELSE Head(seqs) \o Flatten(Tail(seqs))

\* the elements with a separator between them
RECURSIVE Separated(_, _)
Separated(seqs, separator) ==
    IF seqs = <<>> THEN <<>>
    ELSE IF Len(seqs) = 1 THEN seqs[1]
    ELSE seqs[1] \o separator \o Separated(Tail(seqs), separator)

\* an input of the parser: what it is, its tokens and the parts (arguments
\* or entries) it was written from
Input(kind, tokens, receiver, parts, trailing) ==
    [kind |-> kind, tokens |-> tokens, receiver |-> receiver,
     parts |-> parts, trailing |-> trailing]

\* every stream of up to MaxTokens tokens
ArbitraryInputs ==
    { Input("tokens", tokens, FALSE, <<>>, FALSE) :
        tokens \in UNION {[1..n -> TokenChoices] : n \in 0..MaxTokens} }

\* the arguments of a call as they are written
ArgumentTokens(part) ==
    IF part = "x" THEN <<T_x>>
    ELSE IF part = "42" THEN <<T_int>>
    ELSE IF part = "g()" THEN <<T_g, T_open, T_close>>
    ELSE IF part = "g(x)" THEN <<T_g, T_open, T_x, T_close>>
    ELSE <<T_open, T_int, T_close>>

ArgumentChoices == {"x", "42", "g()", "g(x)", "(42)"}

\* the calls f(e1, ..., en); and x.f(e1, ..., en);
CallInputs ==
    { Input("call",
            (IF receiver THEN <<T_x, T_period, T_call>> ELSE <<T_f>>)
                \o <<T_open>>
                \o Separated([i \in DOMAIN parts |-> ArgumentTokens(parts[i])],
                             <<T_comma>>)
                \o <<T_close, T_end>>,
            receiver, parts, FALSE) :
        receiver \in BOOLEAN,
        parts \in UNION {[1..n -> ArgumentChoices] : n \in 0..MaxArgs} }

\* the entries of a struct literal as they are written
EntryTokens(part) ==
    IF part = "x: 42" THEN <<T_x, T_colon, T_int>> ELSE <<T_y>>

EntryChoices == {"x: 42", "y"}

\* the struct literals new P { entries }; with or without a comma after the
\* last entry
NewInputs ==
    { Input("new",
            <<T_new, T_P, T_block>>
                \o Separated([i \in DOMAIN parts |-> EntryTokens(parts[i])],
                             <<T_comma>>)
                \o (IF trailing THEN <<T_comma>> ELSE <<>>)
                \o <<T_blockend, T_end>>,
            FALSE, parts, trailing) :
        trailing \in BOOLEAN,
        parts \in UNION {[1..n -> EntryChoices] : n \in 1..MaxEntries} }

\* the shapes of nested bodies: a body is the sequence of the bodies in it
LeafBodies == {<<>>}

InnerBodies == UNION {[1..n -> LeafBodies] : n \in 0..MaxBodies}

OuterBodies == UNION {[1..n -> InnerBodies] : n \in 0..MaxBodies}

\* { body; body; }
RECURSIVE BodyTokens(_)
BodyTokens(body) ==
    <<T_block>>
        \o Flatten([i \in DOMAIN body |-> BodyTokens(body[i]) \o <<T_end>>])
        \o <<T_blockend>>

\* streams of one body that holds bodies of bodies, and streams of one body
\* or more that hold bodies, each followed by a line end
BodyInputs ==
    { Input("bodies",
            Flatten([i \in DOMAIN bodies |-> BodyTokens(bodies[i]) \o <<T_end>>]),
            FALSE, <<>>, FALSE) :
        bodies \in { <<body>> : body \in OuterBodies }
                      \cup UNION {[1..n -> InnerBodies] : n \in 1..MaxBodies} }

\* what follows the Equals of x = ...;
AssignTokens(part) ==
    IF part = "" THEN <<>>
    ELSE IF part = "42" THEN <<T_int>>
    ELSE IF part = "y" THEN <<T_y>>
    ELSE IF part = "= 42" THEN <<T_equals, T_int>>
    ELSE <<T_plus, T_int>>

AssignChoices == {"", "42", "y", "= 42", "+ 42"}

\* the lines x = ...; and, without a target, = ...;
AssignInputs ==
    { Input("assign",
            (IF target THEN <<T_x>> ELSE <<>>)
                \o <<T_equals>> \o AssignTokens(part) \o <<T_end>>,
            target, <<part>>, FALSE) :
        target \in BOOLEAN, part \in AssignChoices }

\* the tokens of values, parentheses, an operator and the end of a line
ValueChoices == { T_x, T_int, T_open, T_close, T_end, T_plus }

\* every stream of one token more than MaxTokens of them
ValueInputs ==
    { Input("values", tokens, FALSE, <<>>, FALSE) :
        tokens \in UNION {[1..n -> ValueChoices] : n \in 1..(MaxTokens + 1)} }

CodeInputs ==
    ArbitraryInputs \cup CallInputs \cup NewInputs \cup BodyInputs
        \cup AssignInputs \cup ValueInputs

\* ParserUtils at the first token of the body of a function
ParserUtils(input) ==
    [tokens |-> Preamble \o input.tokens \o <<T_eof>>,
     index |-> Len(Preamble), last_id |-> 0]

\* the tokens of a function are handed to parse_code or to parse_line
CodeCall ==
    /\ parser_utils.pc = "idle"
    /\ \E input \in CodeInputs, entry \in {"parse_code", "parse_line"} :
          parser_utils' = [pc |-> "called", entry |-> entry, input |-> input,
                           result |-> OkNone(ParserUtils(input))]
    /\ UNCHANGED <<regVars, monoVars, verVars, structs, solver, parser, sync,
                   tokenizer>>

\* parse_code returns, or panics
ParseCode ==
    /\ parser_utils.pc = "called"
    /\ parser_utils.entry = "parse_code"
    /\ parser_utils' = [parser_utils EXCEPT
           !.pc = "returned",
           !.result = parse_code(ParserUtils(parser_utils.input))]
    /\ UNCHANGED <<regVars, monoVars, verVars, structs, solver, parser, sync,
                   tokenizer>>

\* parse_line returns, or panics
ParseLine ==
    /\ parser_utils.pc = "called"
    /\ parser_utils.entry = "parse_line"
    /\ parser_utils' = [parser_utils EXCEPT
           !.pc = "returned",
           !.result = parse_line(ParserUtils(parser_utils.input), "None")]
    /\ UNCHANGED <<regVars, monoVars, verVars, structs, solver, parser, sync,
                   tokenizer>>

CodeInit == RegInit

CodeNext ==
    \/ CodeCall
    \/ ParseCode
    \/ ParseLine

CodeSpec == CodeInit /\ [][CodeNext]_vars

(***************************************************************************)
(* The tokenizer: its mode stack, its index into the buffer and the last   *)
(* token, and the ParserState that saves and restores the three.           *)
(***************************************************************************)
\* how many bytes a buffer has
MaxBuffer == 3

\* the bytes of the buffers
Bytes == {"f", "s", "a", "{", "}", "\"", "<", ">", " "}

Whitespace == {" ", "\n", "\r", "\t"}

\* Token::new
NewToken(token_type, start, end) ==
    [token_type |-> token_type, start |-> start, end |-> end]

\* Tokenizer::new
tokenizer_new(buffer) ==
    [state |-> <<"TopElement">>, index |-> 0,
     last |-> NewToken("Start", 0, 0), len |-> Len(buffer),
     buffer |-> buffer]

\* Tokenizer::serialize: the ParserState of the tokenizer
serialize(t) == [state |-> t.state, index |-> t.index, last |-> t.last]

\* a load that restores the mode stack and the index and keeps the last token
LoadKeepingLast(t, s) == [t EXCEPT !.state = s.state, !.index = s.index]

\* Tokenizer::load
load(t, s) ==
    [t EXCEPT !.state = s.state, !.index = s.index, !.last = s.last]

\* Tokenizer::next_included: the next byte that is not whitespace, or the
\* EOF token at the end of the buffer
RECURSIVE tokenizer_next_included(_)
tokenizer_next_included(t) ==
    IF t.index = t.len
    THEN [ok |-> FALSE, byte |-> " ",
          token |-> NewToken("EOF", t.index, t.index), t |-> t]
    ELSE LET character == t.buffer[t.index + 1]
             moved == [t EXCEPT !.index = @ + 1]
         IN  IF character \in Whitespace
             THEN tokenizer_next_included(moved)
             ELSE [ok |-> TRUE, byte |-> character,
                   token |-> NewToken("EOF", 0, 0), t |-> moved]

\* Tokenizer::matches: the bytes of the input are next, whitespace apart; the
\* index is put back when they are not
RECURSIVE MatchesFrom(_, _, _)
MatchesFrom(t, input, start) ==
    IF input = <<>> THEN [matched |-> TRUE, t |-> t]
    ELSE LET r == tokenizer_next_included(t)
         IN  IF (IF r.ok THEN r.byte ELSE " ") # Head(input)
             THEN [matched |-> FALSE, t |-> [r.t EXCEPT !.index = start]]
             ELSE MatchesFrom(r.t, Tail(input), start)

matches(t, input) == MatchesFrom(t, input, t.index)

\* Tokenizer::make_token: from the end of the last token to the index
make_token(t, token_type) == NewToken(token_type, t.last.end, t.index)

\* usize subtraction as a build without overflow checks does it: it wraps
\* around to usize::MAX
WrappingSub(a, b) == IF a >= b THEN a - b ELSE U64_MAX - (b - a) + 1

\* Tokenizer::handle_invalid: EOF at the end of the buffer, and else the
\* bytes up to the end of the line as one token, which ends one byte before
\* the index; `overflowed` tells that the index was 0 in that subtraction
RECURSIVE LineEndFrom(_)
LineEndFrom(t) ==
    IF t.index # t.len /\ t.buffer[t.index + 1] # "\n"
    THEN LineEndFrom([t EXCEPT !.index = @ + 1])
    ELSE t

handle_invalid(t) ==
    IF t.index = t.len
    THEN [t |-> t, token |-> NewToken("EOF", t.index, t.index),
          overflowed |-> FALSE]
    ELSE LET moved == LineEndFrom(t)
         IN  [t |-> moved,
              token |-> NewToken("InvalidCharacters", t.last.end,
                                 WrappingSub(moved.index, 1)),
              overflowed |-> moved.index < 1]

\* the mode stack with a mode pushed, and with its top popped
Push(t, mode) == [t EXCEPT !.state = Append(@, mode)]

Pop(t) == [t EXCEPT !.state = SubSeq(@, 1, Len(@) - 1)]

\* a token of the type made after the tokenizer read it
Made(t, token_type) == [t |-> t, token |-> make_token(t, token_type)]

\* the lexer of the top level: `f` starts a function, `s` a structure
next_top_token(t) ==
    LET r == tokenizer_next_included(t)
    IN  IF ~r.ok THEN [t |-> r.t, token |-> r.token]
        ELSE IF r.byte = "f" THEN Made(Push(r.t, "Function"), "FunctionStart")
        ELSE IF r.byte = "s" THEN Made(Push(r.t, "Structure"), "StructStart")
        ELSE handle_invalid(r.t)

\* the lexer of the head of a function: `<` starts its generics, `{` its code
next_func_token(t) ==
    LET r == tokenizer_next_included(t)
    IN  IF ~r.ok THEN [t |-> r.t, token |-> r.token]
        ELSE IF r.byte = "a" THEN Made(r.t, "Identifier")
        ELSE IF r.byte = "<" THEN Made(Push(r.t, "Generic"), "GenericsStart")
        ELSE IF r.byte = "{" THEN Made(Push(Pop(r.t), "Code"), "CodeStart")
        ELSE handle_invalid(r.t)

\* the lexer of a structure
next_struct_token(t) ==
    LET r == tokenizer_next_included(t)
    IN  IF ~r.ok THEN [t |-> r.t, token |-> r.token]
        ELSE IF r.byte = "a" THEN Made(r.t, "Identifier")
        ELSE IF r.byte = "<" THEN Made(Push(r.t, "Generic"), "GenericsStart")
        ELSE IF r.byte = "{" THEN Made(r.t, "StructStart")
        ELSE IF r.byte = "}" THEN Made(Pop(r.t), "StructEnd")
        ELSE handle_invalid(r.t)

\* the lexer of code: `"` starts a string, `{` a block, `}` ends the code
next_code_token(t) ==
    LET r == tokenizer_next_included(t)
    IN  IF ~r.ok THEN [t |-> r.t, token |-> r.token]
        ELSE IF r.byte = "a" THEN Made(r.t, "Variable")
        ELSE IF r.byte = "\"" THEN Made(Push(r.t, "String"), "StringStart")
        ELSE IF r.byte = "{" THEN Made(Push(r.t, "Code"), "BlockStart")
        ELSE IF r.byte = "}" THEN Made(Pop(r.t), "BlockEnd")
        ELSE handle_invalid(r.t)

\* the lexer of a string: every byte up to the closing quote
RECURSIVE next_string(_)
next_string(t) ==
    IF t.index = t.len
    THEN [t |-> t, token |-> NewToken("EOF", t.index, t.index)]
    ELSE LET moved == [t EXCEPT !.index = @ + 1]
         IN  IF t.buffer[t.index + 1] = "\""
             THEN Made(Pop(moved), "StringEnd")
             ELSE next_string(moved)

\* the lexer of generics: `>` ends them
next_generic(t) ==
    LET r == tokenizer_next_included(t)
    IN  IF ~r.ok THEN [t |-> r.t, token |-> r.token]
        ELSE IF r.byte = "a" THEN Made(r.t, "Generic")
        ELSE IF r.byte = ">" THEN Made(Pop(r.t), "GenericsEnd")
        ELSE handle_invalid(r.t)

\* Tokenizer::next: the lexer of the mode on top of the stack makes the
\* token, which becomes the last token
tokenizer_next(t) ==
    LET mode == t.state[Len(t.state)]
        r == IF mode = "String" THEN next_string(t)
             ELSE IF mode = "Generic" THEN next_generic(t)
             ELSE IF mode = "TopElement" THEN next_top_token(t)
             ELSE IF mode = "Function" THEN next_func_token(t)
             ELSE IF mode = "Structure" THEN next_struct_token(t)
             ELSE next_code_token(t)
    IN  [t |-> [r.t EXCEPT !.last = r.token], token |-> r.token]

\* the buffers of up to MaxBuffer bytes
Buffers == UNION {[1..n -> Bytes] : n \in 0..MaxBuffer}

\* the texts that matches is asked for
MatchInputs == {<<"a">>, <<"f", "{">>}

\* A tokenizer is made for a buffer.  `reference` is the tokenizer that the
\* speculative calls do not touch: it is the tokenizer as it is at serialize
\* and from the load on it takes every call the tokenizer takes.
TokenizerNew ==
    /\ tokenizer.pc = "idle"
    /\ \E buffer \in Buffers :
          LET t == tokenizer_new(buffer)
          IN  tokenizer' = [pc |-> "lexing", t |-> t, buffer |-> buffer,
                            saved |-> serialize(t), reference |-> t,
                            token |-> t.last, expected |-> t.last,
                            strayed |-> FALSE, called |-> FALSE]
    /\ UNCHANGED <<regVars, monoVars, verVars, structs, solver, parser, sync,
                   parser_utils>>

\* the parser saves the state of the tokenizer before it speculates
TokenizerSerialize ==
    /\ tokenizer.pc = "lexing"
    /\ tokenizer' = [tokenizer EXCEPT
           !.pc = "speculating",
           !.saved = serialize(tokenizer.t),
           !.reference = tokenizer.t]
    /\ UNCHANGED <<regVars, monoVars, verVars, structs, solver, parser, sync,
                   parser_utils>>

\* next is called
TokenizerNext ==
    /\ tokenizer.pc \in {"lexing", "speculating", "loaded"}
    /\ LET r == tokenizer_next(tokenizer.t)
           e == tokenizer_next(tokenizer.reference)
       IN  tokenizer' = [tokenizer EXCEPT
               !.t = r.t,
               !.token = r.token,
               !.reference = IF tokenizer.pc = "loaded" THEN e.t ELSE @,
               !.expected = IF tokenizer.pc = "loaded" THEN e.token ELSE @,
               !.called = (tokenizer.pc = "loaded")]
    /\ UNCHANGED <<regVars, monoVars, verVars, structs, solver, parser, sync,
                   parser_utils>>

\* matches is called
TokenizerMatches ==
    /\ tokenizer.pc \in {"lexing", "speculating", "loaded"}
    /\ \E input \in MatchInputs :
          tokenizer' = [tokenizer EXCEPT
              !.t = matches(tokenizer.t, input).t,
              !.reference = IF tokenizer.pc = "loaded"
                            THEN matches(tokenizer.reference, input).t
                            ELSE @,
              !.called = (tokenizer.pc = "loaded")]
    /\ UNCHANGED <<regVars, monoVars, verVars, structs, solver, parser, sync,
                   parser_utils>>

\* next_included is called
TokenizerNextIncluded ==
    /\ tokenizer.pc \in {"lexing", "speculating", "loaded"}
    /\ tokenizer' = [tokenizer EXCEPT
           !.t = tokenizer_next_included(tokenizer.t).t,
           !.reference = IF tokenizer.pc = "loaded"
                         THEN tokenizer_next_included(tokenizer.reference).t
                         ELSE @,
           !.called = (tokenizer.pc = "loaded")]
    /\ UNCHANGED <<regVars, monoVars, verVars, structs, solver, parser, sync,
                   parser_utils>>

\* the parser gives up the speculation and loads the saved state, and the
\* token it holds is the last token again; `strayed` records that the mode
\* stack, the index and the last token had all changed
TokenizerLoad ==
    /\ tokenizer.pc = "speculating"
    /\ tokenizer' = [tokenizer EXCEPT
           !.pc = "loaded",
           !.t = load(tokenizer.t, tokenizer.saved),
           !.token = load(tokenizer.t, tokenizer.saved).last,
           !.expected = tokenizer.reference.last,
           !.strayed = /\ tokenizer.t.state # tokenizer.saved.state
                       /\ tokenizer.t.index # tokenizer.saved.index
                       /\ tokenizer.t.last # tokenizer.saved.last]
    /\ UNCHANGED <<regVars, monoVars, verVars, structs, solver, parser, sync,
                   parser_utils>>

TokenizerInit == RegInit

TokenizerNextStep ==
    \/ TokenizerNew
    \/ TokenizerSerialize
    \/ TokenizerNext
    \/ TokenizerMatches
    \/ TokenizerNextIncluded
    \/ TokenizerLoad

TokenizerSpec == TokenizerInit /\ [][TokenizerNextStep]_vars

(***************************************************************************)
(* The helpers of the tokenizer, called one by one as a lexer calls them.  *)
(***************************************************************************)
\* the buffers the helpers are called on: letters, blanks and line ends
HelperBuffers == UNION {[1..n -> {"a", " ", "\n"}] : n \in 0..MaxBuffer}

\* a tokenizer is made for a buffer
HelperNew ==
    /\ tokenizer.pc = "idle"
    /\ \E buffer \in HelperBuffers :
          LET t == tokenizer_new(buffer)
          IN  tokenizer' = [pc |-> "lexing", t |-> t, token |-> t.last,
                            by |-> "new", invalid |-> FALSE]
    /\ UNCHANGED <<regVars, monoVars, verVars, structs, solver, parser, sync,
                   parser_utils>>

\* a lexer calls next_included; at the end of the buffer it returns the EOF
\* token, which next stores as the last token
HelperNextIncluded ==
    /\ tokenizer.pc = "lexing"
    /\ LET r == tokenizer_next_included(tokenizer.t)
       IN  tokenizer' = [tokenizer EXCEPT
               !.t = IF r.ok THEN r.t ELSE [r.t EXCEPT !.last = r.token],
               !.token = IF r.ok THEN @ ELSE r.token,
               !.by = IF r.ok THEN @ ELSE "next_included"]
    /\ UNCHANGED <<regVars, monoVars, verVars, structs, solver, parser, sync,
                   parser_utils>>

\* a lexer calls matches
HelperMatches ==
    /\ tokenizer.pc = "lexing"
    /\ \E input \in MatchInputs :
          tokenizer' = [tokenizer EXCEPT
              !.t = matches(tokenizer.t, input).t]
    /\ UNCHANGED <<regVars, monoVars, verVars, structs, solver, parser, sync,
                   parser_utils>>

\* a lexer returns the token of make_token, which next stores as the last
\* token
HelperMakeToken ==
    /\ tokenizer.pc = "lexing"
    /\ LET token == make_token(tokenizer.t, "Variable")
       IN  tokenizer' = [tokenizer EXCEPT
               !.t = [tokenizer.t EXCEPT !.last = token],
               !.token = token,
               !.by = "make_token"]
    /\ UNCHANGED <<regVars, monoVars, verVars, structs, solver, parser, sync,
                   parser_utils>>

\* a lexer returns the token of handle_invalid, which next stores as the
\* last token.  When the index is 0 in `self.index-1` a build with overflow
\* checks panics and a build without them wraps around.
HelperHandleInvalid ==
    /\ tokenizer.pc = "lexing"
    /\ \E overflow_checks \in BOOLEAN :
          LET r == handle_invalid(tokenizer.t)
          IN  IF r.overflowed /\ overflow_checks
              THEN tokenizer' = [tokenizer EXCEPT
                       !.pc = "panicked", !.by = "handle_invalid",
                       !.invalid = TRUE]
              ELSE tokenizer' = [tokenizer EXCEPT
                       !.t = [r.t EXCEPT !.last = r.token],
                       !.token = r.token,
                       !.by = "handle_invalid",
                       !.invalid = TRUE]
    /\ UNCHANGED <<regVars, monoVars, verVars, structs, solver, parser, sync,
                   parser_utils>>

HelperNext ==
    \/ HelperNew
    \/ HelperNextIncluded
    \/ HelperMatches
    \/ HelperMakeToken
    \/ HelperHandleInvalid

HelperSpec == TokenizerInit /\ [][HelperNext]_vars

(***************************************************************************)
(* Name mangling on pairs of instantiations.                               *)
(***************************************************************************)
\* the names of the types given as type arguments
ArgumentNames ==
    { <<"a">>, <<"b">>, <<"a", "_", "b">>, <<"b", "_", "a">> }

\* the tuples of type arguments of one instantiation
ArgumentTuples == UNION {[1..n -> ArgumentNames] : n \in 1..MaxTypeArgs}

\* ProcessManager::generics for a tuple of type arguments: the i-th generic
\* of the function bound to the i-th type
GenericsOf(tuple) ==
    [i \in DOMAIN tuple |->
        [name |-> <<"T">> \o to_string(i), type |-> Struct(tuple[i])]]

\* the mangled name of an instantiation of the function id or of the struct
\* Pair
Mangle(kind, tuple) ==
    IF kind = "func" THEN MangledName(S_id, GenericsOf(tuple))
    ELSE get_mangled_name([name |-> S_Pair], tuple)

\* two instantiations of one generic function or struct are asked for
MangleCall ==
    /\ structs.pc = "idle"
    /\ \E kind \in {"func", "struct"}, first \in ArgumentTuples,
          second \in ArgumentTuples :
          /\ Len(first) = Len(second)
          /\ structs' = [pc |-> "called", kind |-> kind, first |-> first,
                         second |-> second, names |-> <<>>]
    /\ UNCHANGED <<regVars, monoVars, verVars, solver, parser, sync,
                   parser_utils, tokenizer>>

\* both are given their mangled names
MangleBoth ==
    /\ structs.pc = "called"
    /\ structs' = [structs EXCEPT
           !.pc = "mangled",
           !.names = <<Mangle(structs.kind, structs.first),
                       Mangle(structs.kind, structs.second)>>]
    /\ UNCHANGED <<regVars, monoVars, verVars, solver, parser, sync,
                   parser_utils, tokenizer>>

MangleNext ==
    \/ MangleCall
    \/ MangleBoth

MangleSpec == RegInit /\ [][MangleNext]_vars

(***************************************************************************)
(* Claims about the registry.                                              *)
(***************************************************************************)
\* the item that add(i) finds under the name of item i, if any
Collides(i) == items[i].name \in DOMAIN Manager(items[i].kind).types

Existing(i) == Manager(items[i].kind).types[items[i].name]

WaitingOn(t, kind, key) ==
    /\ waiters[t].state = "waiting"
    /\ waiters[t].kind = kind
    /\ waiters[t].key = key

\* C3: whenever Syntax::add returns for an item named n, every waker that
\* was registered under n in the waker map of the item's kind has been woken
\* and none remains registered under n.
C3_AddDrainsWakers ==
    [][\A i \in 1..MaxItems :
        Add(i) =>
            /\ \A t \in Waiters :
                  WaitingOn(t, items[i].kind, items[i].name)
                      => waiters'[t].state = "woken"
            /\ items[i].name \notin
                  DOMAIN (IF items[i].kind = "func" THEN functions'
                          ELSE structures').wakers
      ]_vars

\* C4: Syntax::finish fires every waker registered at that moment (those of
\* functions, of structs and of operator templates) and leaves no waker
\* registered afterwards.
C4_FinishFiresEveryWaker ==
    [][Finish =>
        /\ \A t \in Waiters :
              waiters[t].state = "waiting" => waiters'[t].state = "woken"
        /\ DOMAIN structures'.wakers = {}
        /\ DOMAIN functions'.wakers = {}
        /\ \A k \in DOMAIN operation_wakers' : operation_wakers'[k] = <<>>
      ]_vars

\* C5: once finish() has been called, no task stays suspended on a function
\* name, a struct name or an operator template forever.
C5_NoTaskWaitsForever ==
    \A t \in Waiters :
        (finished /\ waiters[t].state = "waiting")
            ~> (waiters[t].state # "waiting")

\* C6: when add finds an existing item of the same name and neither item is
\* poisoned, the duplicate-definition error is on the poison list of both the
\* existing and the newly added item afterwards.
C6_DupePoisonsBoth ==
    [][\A i \in 1..MaxItems :
        (/\ Add(i)
         /\ Collides(i)
         /\ items[i].poisoned = <<>>
         /\ items[Existing(i)].poisoned = <<>>)
        => /\ DupeError \in Range(items'[Existing(i)].poisoned)
           /\ DupeError \in Range(items'[i].poisoned)
      ]_vars

\* C7: on a name collision where the existing or the new item already
\* carries an error, add appends no duplicate-definition error to the error
\* vector and poisons nothing.
C7_PoisonedCollisionIgnored ==
    [][\A i \in 1..MaxItems :
        (/\ Add(i)
         /\ Collides(i)
         /\ (items[i].poisoned # <<>> \/ items[Existing(i)].poisoned # <<>>))
        => /\ Count(errors', DupeError) = Count(errors, DupeError)
           /\ items' = items
      ]_vars

\* C8: adding an unpoisoned item whose name an unpoisoned item of the same
\* sort (function, struct, operator trait) already holds appends exactly one
\* duplicate-definition error to the error vector.
C8_ExactlyOneDupeError ==
    [][\A i \in 1..MaxItems :
        (/\ Add(i)
         /\ Collides(i)
         /\ items[i].poisoned = <<>>
         /\ items[Existing(i)].poisoned = <<>>
         /\ is_operator(items[i]) = is_operator(items[Existing(i)]))
        => Count(errors', DupeError) = Count(errors, DupeError) + 1
      ]_vars

(***************************************************************************)
(* Claims about the monomorphiser.                                         *)
(***************************************************************************)
\* no two calls of degeneric overlap: of any two calls that started, one
\* had returned when the other started
Sequential ==
    \A a, b \in Callers :
        (a # b /\ calls[a].pc # "idle" /\ calls[b].pc # "idle")
            => (a \in calls[b].after \/ b \in calls[a].after)

\* the second of two calls for the same function and the same type arguments
SecondOf(c1, c2) ==
    /\ c1 \in calls[c2].after
    /\ calls[c2].pc = "done"
    /\ calls[c1].result.ok
    /\ calls[c1].method = calls[c2].method
    /\ calls[c1].generics = calls[c2].generics

SpawnedFor(name) ==
    {d \in DOMAIN spawned : spawned[d].degenericed.name = name}

RegisteredFor(name) ==
    {i \in DOMAIN items : items[i].name = name}

C2_OneSpecialisationPerName ==
    \A c \in Callers :
        calls[c].pc # "idle" =>
            /\ Cardinality(RegisteredFor(calls[c].name)) <= 1
            /\ Cardinality(SpawnedFor(calls[c].name)) <= 1

(***************************************************************************)
(* Claims about verification.                                              *)
(***************************************************************************)
\* C9: a function whose verify task started on its body (verify_code) has
\* its CodelessFinalizedFunction in the function registry, so a call to it
\* from a body, its own included, does not wait for the signature.
C9_CodelessBeforeBody ==
    \A f \in VerifyFuncs :
        verify[f].pc # "start" =>
            /\ f \in DOMAIN functions.data
            /\ functions.data[f].name = f
            /\ \A g \in VerifyFuncs :
                  verify[g].status = "suspended" => verify[g].awaits # f

\* main verifies its recursive call and finds its own signature
C9_Witness ==
    /\ verify[S_main].status = "running"
    /\ verify[S_main].pc = "code"
    /\ verify[S_main].call <= Len(Body(S_main))
    /\ Body(S_main)[verify[S_main].call].method = S_main
    /\ S_main \in DOMAIN functions.data

\* C10: the verify task of every function of a call graph with a cycle
\* eventually completes and its FinalizedFunction is in the compiling table.
C10_CyclicVerifyCompletes ==
    <>(\A f \in VerifyFuncs :
          verify[f].pc = "done" /\ f \in DOMAIN compiling)

\* C11: every degeneric_code task that degeneric spawned eventually
\* terminates.
C11_SpecialisationTaskTerminates ==
    \A d \in 1..MaxSpawned :
        (d \in DOMAIN spawned)
            ~> (d \in DOMAIN spawned /\ spawned[d].status = "done")

\* C13: when FinalizedCodeBody::degeneric fails inside degeneric_code, the
\* error is appended to the error vector and put on the poison list of the
\* specialisation's FunctionData, and the task does not panic.
C13_BodyErrorIsPoison ==
    [][\A d \in 1..MaxSpawned :
        DegenericCodeBody(d, FALSE) =>
            /\ Len(errors') = Len(errors) + 1
            /\ items'[spawned[d].degenericed.arc].poisoned # <<>>
            /\ spawned'[d].pc # "panicked"
      ]_vars

\* C12: a function whose signature verification reported an error has no
\* call of its body verified (verify_code is not run for it) and no
\* FinalizedFunction under its name in the compiling table.
C12_SignatureErrorStopsVerify ==
    \A f \in VerifyFuncs :
        verify[f].failed =>
            /\ verify[f].call = 1
            /\ verify[f].pc # "done"
            /\ f \notin DOMAIN compiling

\* the type the call binds to a generic parameter of the function
BoundTo(generics, name) ==
    generics[CHOOSE i \in DOMAIN generics : generics[i].name = name].type

\* the base name, `$`, and the types bound to the function's own generic
\* parameters, in the order of the parameters, joined by `_`
OwnGenericsName(c) ==
    LET method == Method(calls[c].method)
        own == [i \in DOMAIN method.generics |->
                   TypeName(BoundTo(calls[c].generics, method.generics[i].name))]
    IN  BeforeDollar(method.name) \o <<"$">> \o display_parenless(own, <<"_">>)

\* C14: the name under which degeneric registers or looks up a
\* specialisation is the base name, `$`, and the concrete types bound to the
\* function's own generic parameters joined by `_`; no other type, such as a
\* generic already in the caller's process manager, is part of it.
C14_NameFromOwnGenerics ==
    \A c \in Callers :
        calls[c].name # <<>> => calls[c].name = OwnGenericsName(c)

(***************************************************************************)
(* Claims about struct specialisation.                                     *)
(***************************************************************************)
\* C15: the struct that resolve_generics returns is named by the scheme of
\* functions: the struct's name, `$`, and the names of the type arguments
\* joined by `_`.
C15_StructNameUsesDollar ==
    structs.pc = "resolved" =>
        structs.returning.name =
            structs.self.name \o <<"$">>
                \o display_parenless(structs.generics, <<"_">>)

\* the entries of the compiling table that degeneric_code inserted
Monomorphised ==
    {n \in DOMAIN compiling :
        \E d \in DOMAIN spawned :
            spawned[d].pc = "done" /\ spawned[d].degenericed = compiling[n]}

\* a name of the form BASE$SUFFIX where neither part is empty
HasSuffix(n) ==
    \E i \in DOMAIN n :
        /\ n[i] = "$"
        /\ 1 < i
        /\ i < Len(n)
        /\ n[Len(n)] # "_"

\* C16: every function that the monomorphiser inserted into the compiling
\* table has no generics and a name BASE$T1_..._Tn with at least one type
\* after the `$`; every other entry has a name without `$`.
C16_CompiledNamesWellFormed ==
    \A n \in DOMAIN compiling :
        IF n \in Monomorphised
        THEN compiling[n].generics = <<>> /\ HasSuffix(n)
        ELSE "$" \notin Range(n)

\* the generic functions the registry held before any call of degeneric
Originals == {S_id, S_sum}

\* C17: after any calls of degeneric every original generic function is as
\* it was - its CodelessFinalizedFunction, its FunctionData and its registry
\* entries - and every specialisation has a FunctionData of its own whose
\* name contains `$`.
C17_OriginalUntouched ==
    /\ functions.sorted = <<1, 2>>
    /\ \A f \in Originals :
          /\ f \in DOMAIN functions.types
          /\ items[functions.types[f]] = MethodItem(f)
          /\ functions.data[f] = Codeless(Method(f), functions.types[f])
    /\ \A n \in DOMAIN functions.data \ Originals :
          /\ \A f \in Originals : functions.data[n].arc # functions.types[f]
          /\ "$" \in Range(items[functions.data[n].arc].name)

\* two specialisations were registered
C17_Witness ==
    /\ \E c \in Callers : calls[c].registered
    /\ Cardinality(DOMAIN functions.data \ Originals) >= 2

(***************************************************************************)
(* Claims about Syntax::solve.                                             *)
(***************************************************************************)
\* C19: solve(first, Generic(_, bounds)) is true exactly when solve(first, b)
\* is true for every bound b, so it is true for no bounds; for any other
\* second operand the answer is the solver's for that operand alone.  The
\* call that hit no cap returns this value.
C19_GenericHoldsIffEveryBound ==
    solver.pc = "answered" =>
        /\ solver.second.tag = "Generic" =>
              (solve(solver.first, solver.second)
                  <=> \A i \in DOMAIN solver.second.bounds :
                          solve(solver.first, solver.second.bounds[i]))
        /\ solver.second.tag # "Generic" =>
              (solve(solver.first, solver.second)
                  <=> Implemented(solver.first, solver.second))
        /\ ~solver.overflowed =>
              solver.answer = solve(solver.first, solver.second)

\* a generic with two bounds, the second a generic itself, was answered true
C19_Witness ==
    /\ solver.pc = "answered"
    /\ solver.second.tag = "Generic"
    /\ Len(solver.second.bounds) = 2
    /\ solver.second.bounds[2].tag = "Generic"
    /\ solver.answer
    /\ ~solver.overflowed

\* a generic without bounds was answered true
C19_WitnessNoBounds ==
    /\ solver.pc = "answered"
    /\ solver.second.tag = "Generic"
    /\ solver.second.bounds = <<>>
    /\ solver.answer

PriorityTree(table, input) ==
    LET f1 == FunctionOf(table, input.op1)
        f2 == FunctionOf(table, input.op2)
        a == Number(<<input.a>>)
        b == Number(<<input.b>>)
        c == Number(<<input.c>>)
    IN  IF f1.priority > f2.priority
        THEN OperatorEffect(f2, <<OperatorEffect(f1, <<a, b>>), c>>)
        ELSE OperatorEffect(f1, <<a, OperatorEffect(f2, <<b, c>>)>>)

\* C18: for operators of distinct priorities, parse_effect on `a OP1 b OP2 c`
\* returns the tree that priority dictates, with the three operands in it,
\* and so does assign_with_priority on the operator of that input.
C18_PriorityDecidesTree ==
    /\ parser.pc \notin {"looping", "panicked"}
    /\ parser.pc \in {"returned", "assigned"}
          => parser.result = PriorityTree(parser.table, parser.input)

(***************************************************************************)
(* Claims about the operations table.                                      *)
(***************************************************************************)
\* the marker {+} occurs in a template
HasMarker(template) ==
    \E i \in 1..(Len(template) - 2) : SubSeq(template, i, i + 2) = PlusHole

\* the template with its markers turned into plain holes, position by
\* position
RECURSIVE Unmarked(_)
Unmarked(template) ==
    IF template = <<>> THEN <<>>
    ELSE IF Len(template) >= 3 /\ SubSeq(template, 1, 3) = PlusHole
    THEN OpenHole \o Unmarked(SubSeq(template, 4, Len(template)))
    ELSE <<Head(template)>> \o Unmarked(Tail(template))

\* a step of Syntax::add with the operator trait i that is not poisoned and
\* whose operation attribute is a string
AddsOperator(i) ==
    /\ i \in pending
    /\ i \notin pending'
    /\ is_operator(items[i])
    /\ items[i].attr.tag = "string"
    /\ items[i].poisoned = <<>>

\* C21: no key of the operations table contains the marker {+}; add stores
\* an operator trait under its template with every {+} turned into {}, and
\* when that key is already in the table - as for two traits whose templates
\* differ only in {+} and {} - the duplicate error is recorded.
C21_OperationKeysUnmarked ==
    /\ [](\A key \in DOMAIN operations : ~HasMarker(key))
    /\ [][\A i \in DOMAIN items :
            AddsOperator(i) =>
                LET key == Unmarked(items[i].attr.val)
                IN  /\ operations' = Put(operations, key, i)
                    /\ key \in DOMAIN operations =>
                          /\ Len(errors') > Len(errors)
                          /\ errors'[Len(errors')] = DupeError]_vars

\* the trait declared with {+}+{} and the trait declared with {}+{} were
\* both added: there is one key, {}+{}, and the duplicate error
C21_Witness ==
    /\ DOMAIN operations = {TemplatePlain}
    /\ Len(items) = 2
    /\ \E i \in DOMAIN items, j \in DOMAIN items :
          /\ items[i].attr = [tag |-> "string", val |-> TemplatePlain]
          /\ items[j].attr = [tag |-> "string", val |-> TemplateMarked]
          /\ {i, j} \cap pending = {}
    /\ DupeError \in Range(errors)

(***************************************************************************)
(* Claims about the Syntax mutex.                                          *)
(***************************************************************************)
\* C22: no task is suspended at an await while it holds the guard of the
\* Syntax mutex, so whenever a task finds the mutex taken, its holder is a
\* task that is running.
C22_NoGuardAcrossAwait ==
    sync.pc = "running" =>
        /\ \A t \in DOMAIN LockTasks : sync.suspended[t] => sync.mutex # t
        /\ \A t \in DOMAIN LockTasks :
              (sync.at[t] # 0 /\ StepOf(t).op = "lock" /\ sync.mutex # 0)
                  => ~sync.suspended[sync.mutex]

\* a call of degeneric is suspended in its await after the lookup while
\* another call of degeneric holds the guard for its insert
C22_Witness ==
    /\ sync.pc = "running"
    /\ \E t \in DOMAIN LockTasks, u \in DOMAIN LockTasks :
          /\ sync.suspended[t]
          /\ StepOf(t).line = 193
          /\ sync.mutex = u
          /\ sync.at[u] # 0
          /\ StepOf(u).line = 220

(***************************************************************************)
(* Claims about the code parser.                                           *)
(***************************************************************************)
\* C23: on every token stream that ends with EOF, parse_code and parse_line
\* return Ok or Err: they do not panic and the cursor does not go past the
\* last token.
C23_ReturnsOnEveryStream ==
    parser_utils.pc = "returned" =>
        /\ parser_utils.result.status \in {"some", "none", "err"}
        /\ parser_utils.result.pu.index <= Len(parser_utils.result.pu.tokens)

\* the literals as they are written, and the effect each stands for
Literals == {<<T_int>>, <<T_float>>, <<T_true>>, <<T_false>>, <<T_quote, T_string>>}

LiteralEffect(literal) ==
    IF literal = <<T_int>> THEN IntEffect(42)
    ELSE IF literal = <<T_float>> THEN FloatEffect(15)
    ELSE IF literal = <<T_true>> THEN BoolEffect(TRUE)
    ELSE IF literal = <<T_false>> THEN BoolEffect(FALSE)
    ELSE StringEffect(<<"h", "i", "NUL">>)

\* the error a literal token is refused with
LiteralError(token) ==
    IF token.type = "Integer" THEN "Unexpected integer!"
    ELSE IF token.type = "Float" THEN "Unexpected float!"
    ELSE IF token.type = "StringStart" THEN "Unexpected string!"
    ELSE "Unexpected boolean!"

\* parse_line was called on a stream that starts with the tokens `start`
LineOf(start) ==
    /\ parser_utils.pc = "returned"
    /\ parser_utils.entry = "parse_line"
    /\ Len(parser_utils.input.tokens) >= Len(start)
    /\ SubSeq(parser_utils.input.tokens, 1, Len(start)) = start

\* C24: in parse_line a literal token met while the effect slot is filled
\* (by a variable or by a literal) gives a ParsingError and the effect in the
\* slot is not replaced; met while the slot is empty the literal becomes the
\* effect of the line.
C24_LiteralNeedsEmptySlot ==
    /\ \A filled \in Literals \cup {<<T_x>>}, literal \in Literals :
          LineOf(filled \o <<literal[1]>>) =>
              /\ parser_utils.result.status = "err"
              /\ parser_utils.result.error = LiteralError(literal[1])
    /\ \A literal \in Literals :
          LineOf(literal \o <<T_end>>) =>
              /\ parser_utils.result.status = "some"
              /\ parser_utils.result.value
                    = Expression("Line", LiteralEffect(literal))

\* a float after an integer was refused
C24_Witness ==
    /\ LineOf(<<T_int, T_float>>)
    /\ parser_utils.result.error = "Unexpected float!"

\* the labels of the bodies of an effect, one for every CodeBody in it
RECURSIVE Labels(_)
Labels(effect) ==
    (IF effect.tag = "CodeBody" THEN <<effect.name>> ELSE <<>>)
        \o Flatten([i \in DOMAIN effect.args |-> Labels(effect.args[i])])
        \o Flatten([i \in DOMAIN effect.receiver |-> Labels(effect.receiver[i])])

\* the body that parse_code returned, if it returned one
Parsed ==
    /\ parser_utils.pc = "returned"
    /\ parser_utils.entry = "parse_code"
    /\ parser_utils.result.status = "some"

\* C25: the labels of the bodies that parse_code produced in one parser
\* context - the body returned and the bodies nested in it - are pairwise
\* distinct, and each is below last_id.
C25_LabelsDistinct ==
    Parsed =>
        LET labels == Labels(parser_utils.result.value)
        IN  /\ \A i \in DOMAIN labels, j \in DOMAIN labels :
                  labels[i] = labels[j] => i = j
            /\ \A i \in DOMAIN labels :
                  \E id \in 0..(parser_utils.result.pu.last_id - 1) :
                      labels[i] = to_string(id)

\* a stream of two bodies with two bodies in each was parsed
C25_Witness ==
    /\ Parsed
    /\ parser_utils.input.kind = "bodies"
    /\ Len(Labels(parser_utils.result.value)) = 7

\* the effect an argument stands for
ArgumentEffect(part) ==
    IF part = "x" THEN LoadVariable(<<"x">>)
    ELSE IF part = "42" THEN IntEffect(42)
    ELSE IF part = "g()" THEN MethodCall(<<>>, <<"g">>, <<>>)
    ELSE IF part = "g(x)"
    THEN MethodCall(<<>>, <<"g">>, <<LoadVariable(<<"x">>)>>)
    ELSE Paren(IntEffect(42))

\* parse_line returned from a line that is a call
CallParsed ==
    /\ parser_utils.pc = "returned"
    /\ parser_utils.entry = "parse_line"
    /\ parser_utils.input.kind = "call"

\* C26: for a call f(e1, ..., en) closed by `)`, parse_line yields the
\* MethodCall with the effect parsed before the name as its receiver, the
\* text of the token before the `(` as its name and the effects of the n
\* arguments in their order (none for f()), and the cursor has gone past the
\* `)` and the end of the line and no further.
C26_CallHoldsEveryArgument ==
    CallParsed =>
        LET input == parser_utils.input
        IN  /\ parser_utils.result.status = "some"
            /\ parser_utils.result.value
                  = Expression("Line",
                        MethodCall(
                            IF input.receiver THEN <<LoadVariable(<<"x">>)>>
                            ELSE <<>>,
                            <<"f">>,
                            [i \in DOMAIN input.parts |->
                                ArgumentEffect(input.parts[i])]))
            /\ parser_utils.result.pu.index
                  = Len(Preamble) + Len(input.tokens)

\* a call on a receiver with a call and a parenthesis as its arguments
C26_Witness ==
    /\ CallParsed
    /\ parser_utils.input.receiver
    /\ parser_utils.input.parts = <<"g(x)", "(42)">>

\* the (name, effect) pair an entry of a struct literal stands for
EntryValue(part) ==
    IF part = "x: 42" THEN NamedValue(<<"x">>, IntEffect(42))
    ELSE NamedValue(<<"y">>, LoadVariable(<<"y">>))

\* parse_line returned from a line that is a struct literal
NewParsed ==
    /\ parser_utils.pc = "returned"
    /\ parser_utils.entry = "parse_line"
    /\ parser_utils.input.kind = "new"

\* C27: for a struct literal new P { entries } the parser yields the
\* CreateStruct of P with one (name, effect) pair for every entry, in the
\* order of the entries - (name, expr) for `name: expr`, (name,
\* LoadVariable(name)) for `name` - whether or not a comma follows the last
\* entry.
C27_OnePairPerEntry ==
    NewParsed =>
        /\ parser_utils.result.status = "some"
        /\ parser_utils.result.value
              = Expression("Line",
                    CreateStruct(<<"P">>,
                        [i \in DOMAIN parser_utils.input.parts |->
                            EntryValue(parser_utils.input.parts[i])]))

\* the same for the literals in which a comma follows every entry
C27_OnePairPerTerminatedEntry ==
    (NewParsed /\ parser_utils.input.trailing) =>
        /\ parser_utils.result.status = "some"
        /\ parser_utils.result.value
              = Expression("Line",
                    CreateStruct(<<"P">>,
                        [i \in DOMAIN parser_utils.input.parts |->
                            EntryValue(parser_utils.input.parts[i])]))

\* parse_line returned from a line x = ...; where `part` follows the Equals
AssignParsed(part) ==
    /\ parser_utils.pc = "returned"
    /\ parser_utils.entry = "parse_line"
    /\ parser_utils.input.kind = "assign"
    /\ parser_utils.input.receiver
    /\ parser_utils.input.parts = <<part>>

\* an Equals with a value after it yields the Set of the effect before it and
\* the value; an Equals with an Operator or an Equals after it yields what
\* the operator parser returns, which is no Set
SetOrOperator ==
    /\ AssignParsed("42") =>
          /\ parser_utils.result.status = "some"
          /\ parser_utils.result.value
                = Expression("Line",
                      SetEffect(LoadVariable(<<"x">>), IntEffect(42)))
    /\ AssignParsed("y") =>
          /\ parser_utils.result.status = "some"
          /\ parser_utils.result.value
                = Expression("Line",
                      SetEffect(LoadVariable(<<"x">>), LoadVariable(<<"y">>)))
    /\ \A part \in {"= 42", "+ 42"} :
          AssignParsed(part) =>
              /\ parser_utils.result.status = "some"
              /\ parser_utils.result.value.args[1].tag = "Operator"
              /\ \A i \in DOMAIN parser_utils.result.value.args[1].args :
                    parser_utils.result.value.args[1].args[i].tag # "Set"

\* C28: in parse_line an Equals after an effect, with a token after it that
\* is neither Operator nor Equals, yields Set(effect, value) of the value
\* parsed to its right and an error when nothing is to its right; an Equals
\* with an Operator or an Equals after it goes to the operator parser and
\* yields no Set.
C28_EqualsSetsOrFails ==
    /\ SetOrOperator
    /\ AssignParsed("") => parser_utils.result.status = "err"

\* SetOrOperator holds of every line parsed
C28_SetOrOperator == SetOrOperator

(***************************************************************************)
(* Claims about parse_operator.                                            *)
(***************************************************************************)
\* the operation of the table that was matched
Matched ==
    CHOOSE k \in DOMAIN parser.table :
        parser.table[k].name = parser.operator.val

\* the template starts with a hole
LeadingHole(operation) ==
    /\ Len(operation.template) >= 2
    /\ SubSeq(operation.template, 1, 2) = <<"{", "}">>

\* the template without its leading hole
AfterHole(operation) ==
    IF LeadingHole(operation)
    THEN SubSeq(operation.template, 3, Len(operation.template))
    ELSE operation.template

\* a template with a leading hole is matched only with a left operand and
\* one without only with none; and with no match the cursor and the left
\* operand are as they were
HoleIffOperand ==
    parser.pc = "returned" =>
        /\ parser.status = "some" =>
              /\ parser.operator.tag = "Operator"
              /\ LeadingHole(parser.table[Matched]) = (parser.last.some)
        /\ parser.status = "none" =>
              /\ parser.parsing.index = 1
              /\ parser.last \in {NoEffect, SomeEffect(Number(<<"1">>))}

\* C29: parse_operator matches a template that starts with `{}` only with a
\* left operand and any other only without one; when it matches a template
\* whose rest is the text of the operator, that text is what the input held
\* and the cursor is after it; when none matches, the cursor and the left
\* operand are unchanged.
C29_MatchAdvancesPastOperator ==
    /\ HoleIffOperand
    /\ (parser.pc = "returned" /\ parser.status = "some") =>
          LET rest == AfterHole(parser.table[Matched])
          IN  IF \A i \in DOMAIN rest : rest[i] \notin {"{", "}"}
              THEN /\ parser.parsing.index = 1 + Len(rest)
                   /\ SubSeq(parser.parsing.buffer, 1, Len(rest)) = rest
              ELSE parser.parsing.buffer[parser.parsing.index] = ";"

\* HoleIffOperand holds of every call of parse_operator
C29_HoleIffOperand == HoleIffOperand

\* `{}!` was matched after a left operand and the cursor is after the `!`
C29_MatchReached ==
    /\ parser.pc = "returned"
    /\ parser.status = "some"
    /\ parser.table = <<Negate, Factorial>>
    /\ parser.parsing.index = 2

(***************************************************************************)
(* Claims about the tokenizer.                                             *)
(***************************************************************************)
\* C30: after load(s) the mode stack, the index and the last token are those
\* of the time s was serialized, whatever next, matches and next_included
\* calls were made in between; from then on the tokenizer and the tokens it
\* produces are those of a tokenizer on which the calls in between were never
\* made; and len and buffer are never changed.
C30_LoadRestoresSpeculation ==
    /\ (tokenizer.pc = "loaded" /\ ~tokenizer.called) =>
          serialize(tokenizer.t) = tokenizer.saved
    /\ tokenizer.pc = "loaded" =>
          /\ tokenizer.t = tokenizer.reference
          /\ tokenizer.token = tokenizer.expected
    /\ tokenizer.pc # "idle" =>
          /\ tokenizer.t.buffer = tokenizer.buffer
          /\ tokenizer.t.len = Len(tokenizer.buffer)

\* a token that is not EOF was produced after a load that undid a change of
\* the mode stack, of the index and of the last token
C30_Witness ==
    /\ tokenizer.pc = "loaded"
    /\ tokenizer.strayed
    /\ tokenizer.called
    /\ tokenizer.token = tokenizer.t.last
    /\ tokenizer.token.token_type \notin {"EOF", "Start"}
    /\ Len(tokenizer.t.state) > 1

(***************************************************************************)
(* Claims about assign_with_priority.                                      *)
(***************************************************************************)
\* the leaves of an effect from left to right
RECURSIVE Leaves(_)
Leaves(effect) ==
    IF effect.tag = "Operator"
    THEN Flatten([i \in DOMAIN effect.effects |-> Leaves(effect.effects[i])])
    ELSE <<effect>>

\* the right operand of the operator handed over goes to the root
Rotates ==
    LET f1 == FunctionOf(parser.table, parser.input.op1)
        f2 == FunctionOf(parser.table, parser.input.op2)
    IN  \/ f2.priority < f1.priority
        \/ f2.priority = f1.priority /\ f2.parse_left

\* C31: assign_with_priority on Op1(a, Op2(b, c)) returns Op2(Op1(a, b), c)
\* when Op2 has the lower priority, or the same priority and parse_left, and
\* returns the operator as it was otherwise; either way the leaves of the
\* result are a, b, c in this order and none of them is NOP.
C31_RotationKeepsOperands ==
    parser.pc = "assigned" =>
        LET f1 == FunctionOf(parser.table, parser.input.op1)
            f2 == FunctionOf(parser.table, parser.input.op2)
            a == Number(<<parser.input.a>>)
            b == Number(<<parser.input.b>>)
            c == Number(<<parser.input.c>>)
        IN  /\ parser.result
                  = IF Rotates
                    THEN OperatorEffect(f2, <<OperatorEffect(f1, <<a, b>>), c>>)
                    ELSE parser.operator
            /\ Leaves(parser.result) = <<a, b, c>>

\* without a rotation the operator is returned as it was
C31_UnrotatedUnchanged ==
    (parser.pc = "assigned" /\ ~Rotates) =>
        /\ parser.result = parser.operator
        /\ Leaves(parser.result)
              = <<Number(<<parser.input.a>>), Number(<<parser.input.b>>),
                  Number(<<parser.input.c>>)>>

(***************************************************************************)
(* Claims about the order and the contents of the registry.                *)
(***************************************************************************)
\* no item handed over by the parser failed to parse
NoParseFailure ==
    \A j \in DOMAIN items : ParseError \notin Range(items[j].poisoned)

\* C32: every call of Syntax::add returns: an item that is waiting to be
\* added is added in the end, when every item before it is passed to add,
\* also when a struct before it was a duplicate and was not appended to
\* sorted.
C32_AddReturns ==
    \A i \in 1..MaxItems : (i \in pending) ~> (i \notin pending)

\* the same when no item failed to parse, so that add_poison is never called
C32_AddReturnsUnpoisoned ==
    \A i \in 1..MaxItems :
        ([]NoParseFailure) => ((i \in pending) ~> (i \notin pending))

\* C33: structures.sorted is ordered by id under every interleaving of add
\* and add_poison: the struct with id k is the k-th of sorted.
C33_SortedById ==
    \A k \in DOMAIN structures.sorted : items[structures.sorted[k]].id = k

\* the same while no item failed to parse, so that only add has been called
C33_SortedByIdUnpoisoned == NoParseFailure => C33_SortedById

\* the by-name map and the sorted list of a manager hold the same items, and
\* no two items of sorted have the same name
SameItems(manager) ==
    /\ Range(manager.sorted) = {manager.types[n] : n \in DOMAIN manager.types}
    /\ \A j \in DOMAIN manager.sorted, k \in DOMAIN manager.sorted :
          items[manager.sorted[j]].name = items[manager.sorted[k]].name
              => j = k

\* C34: for functions and for structs, the by-name map and the sorted list
\* hold exactly the same items and sorted holds no name twice, after any
\* sequence of add, add_poison and degeneric.
C34_TypesAndSortedAgree ==
    /\ SameItems(functions)
    /\ SameItems(structures)

(***************************************************************************)
(* Claims about name mangling.                                             *)
(***************************************************************************)
\* C35: two instantiations of one generic function or struct with different
\* tuples of type arguments have different mangled names, also when a type
\* name holds a `_`.
C35_ManglingInjective ==
    (structs.pc = "mangled" /\ structs.first # structs.second) =>
        structs.names[1] # structs.names[2]

\* the same for type names without `_`
C35_InjectiveWithoutUnderscore ==
    (/\ structs.pc = "mangled"
     /\ structs.first # structs.second
     /\ \A i \in DOMAIN structs.first :
           /\ "_" \notin Range(structs.first[i])
           /\ "_" \notin Range(structs.second[i])) =>
        structs.names[1] # structs.names[2]

(***************************************************************************)
(* Claims about the traits of the operations table.                        *)
(***************************************************************************)
\* every trait of the operations table is the struct registered under its
\* name
OperatorsRegistered ==
    \A key \in DOMAIN operations :
        LET name == items[operations[key]].name
        IN  /\ name \in DOMAIN structures.types
            /\ structures.types[name] = operations[key]

\* a template that is bound to a trait stays bound to that trait
OperatorsKept ==
    \A key \in DOMAIN operations :
        /\ key \in DOMAIN operations'
        /\ operations'[key] = operations[key]

\* C36: every trait stored in the operations table is the item registered
\* under its own name among the structs - a trait that add rejected as a
\* duplicate name is not installed as an operator - and the trait bound to a
\* template is not replaced when the template is registered again.
C36_OperatorsAreRegisteredTraits ==
    /\ []OperatorsRegistered
    /\ [][OperatorsKept]_vars

\* the second half alone
C36_OperatorsKept == [][OperatorsKept]_vars

(***************************************************************************)
(* Claims about the helpers of the tokenizer.                              *)
(***************************************************************************)
\* the token made last has start <= end <= len and the index is within the
\* buffer
WellFormed ==
    /\ tokenizer.token.start <= tokenizer.token.end
    /\ tokenizer.token.end <= tokenizer.t.len
    /\ tokenizer.t.index <= tokenizer.t.len

\* C37: every token that make_token, next_included (its EOF token) and
\* handle_invalid produce has start <= end <= len, and the index never
\* exceeds len; no call panics, also when handle_invalid is called with the
\* cursor on a line end or at index 0.
C37_SpansWellFormed ==
    /\ tokenizer.pc # "panicked"
    /\ tokenizer.pc = "lexing" => WellFormed

\* the same as long as handle_invalid has not been called
C37_WellFormedWithoutInvalid ==
    (tokenizer.pc = "lexing" /\ ~tokenizer.invalid) => WellFormed

\* the index is within the buffer whatever was called
C37_IndexWithinBuffer ==
    tokenizer.pc = "lexing" => tokenizer.t.index <= tokenizer.t.len

\* the number of values an effect holds: the variables and literals in it
RECURSIVE ValuesIn(_)
ValuesIn(effect) ==
    LET RECURSIVE Sum(_)
        Sum(effects) ==
            IF effects = <<>> THEN 0
            ELSE ValuesIn(Head(effects)) + Sum(Tail(effects))
    IN  (IF effect.tag \in {"LoadVariable", "Int", "Float", "Bool", "String"}
         THEN 1 ELSE 0)
        + Sum(effect.receiver) + Sum(effect.args)

\* the number of values among the first n tokens of a stream: the literals
\* and the variables that are not the name of a call
ValuesAmong(tokens, n) ==
    Cardinality({ i \in 1..n :
        \/ tokens[i].type \in {"Integer", "Float", "True", "False"}
        \/ /\ tokens[i].type = "Variable"
           /\ ~(i < Len(tokens) /\ tokens[i + 1].type = "ParenOpen") })

\* parse_line returned from a stream of values
ValuesParsed ==
    /\ parser_utils.pc = "returned"
    /\ parser_utils.entry = "parse_line"
    /\ parser_utils.input.kind = "values"

\* C38: parse_line never drops an effect it has parsed: when it returns an
\* expression, the expression holds every value among the tokens it consumed,
\* and it does not return without an expression after consuming a value (it
\* returns an error where an effect in the slot would be replaced).
C38_NoEffectDropped ==
    ValuesParsed =>
        LET result == parser_utils.result
            consumed == ValuesAmong(result.pu.tokens, result.pu.index)
        IN  /\ result.status = "some" => ValuesIn(result.value) = consumed
            /\ result.status = "none" => consumed = 0

\* parse_effect is through with an identifier
IdentifierDone == parser.pc \in {"returned", "looping", "panicked"}

\* C39: an identifier that starts with any ASCII letter, the first and the
\* last letter of either case among them, is parsed as the VariableLoad of
\* that identifier: parse_effect returns it and the identifier does not go to
\* the operator parser.
C39_LettersLoadVariables ==
    IdentifierDone =>
        /\ parser.pc = "returned"
        /\ parser.status = "some"
        /\ parser.result = VariableLoad(parser.name)

\* an identifier that starts with a letter strictly inside a..z or A..Z is
\* parsed as the VariableLoad of that identifier
C39_InnerLettersLoadVariables ==
    IdentifierDone /\ parser.name[1] \in {"b", "y", "B", "Y"} =>
        /\ parser.pc = "returned"
        /\ parser.status = "some"
        /\ parser.result = VariableLoad(parser.name)

\* an identifier that starts with a, z, A or Z goes to the operator parser,
\* which finds no operator, and parse_effect reads the same byte again
C39_BoundaryLettersLoop ==
    IdentifierDone /\ parser.name[1] \in {"a", "z", "A", "Z"} =>
        parser.pc = "looping"

====
